---- MODULE Spec2Model ----
(***************************************************************************)
(* Model of the BEA NIPA transform (src/src/nodes/nipa_transform.py).      *)
(*                                                                         *)
(* Strings are sequences of code points (naturals), so that Python's       *)
(* string order (code point order), str.lower, the regular expressions and *)
(* the f-string concatenations are computed rather than assumed.  Only     *)
(* ASCII code points occur in the inputs.  A Python None where a string is *)
(* expected is the one-element sequence <<-1>>, which is no string.        *)
(***************************************************************************)
EXTENDS Integers, Sequences, FiniteSets, TLC

(***************************************************************************)
(* Bounds of the model.                                                    *)
(***************************************************************************)
\* longest record list handed to transform_table_frequency in SpecPivot
MaxRecords == 3
\* longest catalog of a run in Spec
MaxCatalog == 3
\* the number of pieces a data value is made of
MaxValuePieces == 3
\* the number of pieces a period token is made of
MaxTokenPieces == 4
\* the number of phrases a table title is made of
MaxTitlePieces == 2
\* the number of rows of a table handed to the validator
MaxDates == 2

\* the catalog entries of a run whose pairs are taken in any order
MaxOrderEntries == 2

\* the pairs in flight at one time
MaxWorkers == 2

(***************************************************************************)
(* Code points and string helpers (Python str semantics).                  *)
(***************************************************************************)
None == <<-1>>

IsDigit(c) == c \in 48..57

IsUpper(c) == c \in 65..90

IsLowerAlnum(c) == c \in 97..122 \/ c \in 48..57

\* str.isspace / the regular expression class \s on ASCII input
IsSpace(c) == c \in 9..13 \/ c \in 28..32

LowerChar(c) == IF IsUpper(c) THEN c + 32 ELSE c

\* str.lower()
Lower(s) == [i \in 1..Len(s) |-> LowerChar(s[i])]

\* the characters of s that satisfy keep, in order
RECURSIVE FilterChars(_, _)
FilterChars(s, keep) ==
  IF s = <<>> THEN <<>>
  ELSE IF Head(s) \in keep THEN <<Head(s)>> \o FilterChars(Tail(s), keep)
       ELSE FilterChars(Tail(s), keep)

CharsOf(s) == {s[i] : i \in 1..Len(s)}

\* str.strip(): leading and trailing whitespace removed
Strip(s) ==
  LET keep == {i \in 1..Len(s) : ~IsSpace(s[i])}
  IN  IF keep = {} THEN <<>>
      ELSE LET lo == CHOOSE i \in keep : \A j \in keep : i <= j
               hi == CHOOSE i \in keep : \A j \in keep : j <= i
           IN  SubSeq(s, lo, hi)

\* lit occurs in s starting at position i
MatchAt(s, i, lit) ==
  /\ i >= 1
  /\ i + Len(lit) - 1 <= Len(s)
  /\ \A k \in 1..Len(lit) : s[i + k - 1] = lit[k]

\* Python's `sub in s`
Contains(s, sub) == \E i \in 1..(Len(s) - Len(sub) + 1) : MatchAt(s, i, sub)

\* Python's s < t on strings: code point order, a proper prefix is smaller
StrLess(s, t) ==
  \E k \in 0..Len(s) :
     /\ k <= Len(t)
     /\ \A i \in 1..k : s[i] = t[i]
     /\ \/ k = Len(s) /\ k < Len(t)
        \/ k < Len(s) /\ k < Len(t) /\ s[k + 1] < t[k + 1]

StrLeq(s, t) == s = t \/ StrLess(s, t)

\* sorted(S) for a finite set of strings
RECURSIVE SortedSeq(_)
SortedSeq(S) ==
  IF S = {} THEN <<>>
  ELSE LET m == CHOOSE x \in S : \A y \in S : StrLeq(x, y)
       IN  <<m>> \o SortedSeq(S \ {m})

IsSorted(seq) == \A i \in 1..(Len(seq) - 1) : StrLeq(seq[i], seq[i + 1])

\* str(i) for a natural number
RECURSIVE IntToStr(_)
IntToStr(n) ==
  IF n < 10 THEN <<48 + n>> ELSE IntToStr(n \div 10) \o <<48 + (n % 10)>>

\* the regular expression anchor $ at position i (the next unread position):
\* the end of the string, or just before a final newline
AtDollar(s, i) == i = Len(s) + 1 \/ (i = Len(s) /\ s[i] = 10)

(***************************************************************************)
(* slugify (nipa_transform.py 18-23).                                      *)
(***************************************************************************)
\* re.sub(r'\s+', '_', t): every maximal run of whitespace becomes one '_'
RECURSIVE CollapseSpaces(_, _)
CollapseSpaces(t, inRun) ==
  IF t = <<>> THEN <<>>
  ELSE IF IsSpace(Head(t))
       THEN (IF inRun THEN <<>> ELSE <<95>>) \o CollapseSpaces(Tail(t), TRUE)
       ELSE <<Head(t)>> \o CollapseSpaces(Tail(t), FALSE)

slugify(text) ==
  LET lowered == Lower(text)
      kept == FilterChars(lowered,
                 {c \in CharsOf(lowered) : IsLowerAlnum(c) \/ IsSpace(c)})
  IN  CollapseSpaces(Strip(kept), FALSE)

(***************************************************************************)
(* parse_value (nipa_transform.py 25-38).  A float is the exact decimal    *)
(* <<"float", m, e>> (m * 10^e, m without trailing zeros), or              *)
(* <<"float", "inf" | "-inf" | "nan">>; null is <<"null">>.                *)
(***************************************************************************)
Null == <<"null">>

AllDigits(s) == \A i \in 1..Len(s) : IsDigit(s[i])

RECURSIVE DigitsVal(_)
DigitsVal(s) ==
  IF s = <<>> THEN 0 ELSE DigitsVal(SubSeq(s, 1, Len(s) - 1)) * 10 + (s[Len(s)] - 48)

RECURSIVE Normalized(_, _)
Normalized(m, e) ==
  IF m = 0 THEN <<"float", 0, 0>>
  ELSE IF m % 10 = 0 THEN Normalized(m \div 10, e + 1)
       ELSE <<"float", m, e>>

\* float(): underscores are allowed only between two digits
UnderscoresOk(s) ==
  \A i \in 1..Len(s) :
     s[i] = 95 => /\ i > 1 /\ i < Len(s)
                  /\ IsDigit(s[i - 1]) /\ IsDigit(s[i + 1])

\* the unsigned decimal literal u: digits [. digits] | . digits, then [e [sign] digits]
DecimalParts(u) ==
  LET lu == Lower(u)
      epos == {i \in 1..Len(lu) : lu[i] = 101}
      mant == IF epos = {} THEN lu
              ELSE SubSeq(lu, 1, (CHOOSE i \in epos : \A j \in epos : i <= j) - 1)
      expo == IF epos = {} THEN <<>>
              ELSE SubSeq(lu, (CHOOSE i \in epos : \A j \in epos : i <= j) + 1, Len(lu))
      esign == IF expo # <<>> /\ Head(expo) = 45 THEN -1 ELSE 1
      edigits == IF expo # <<>> /\ Head(expo) \in {43, 45} THEN Tail(expo) ELSE expo
      dots == {i \in 1..Len(mant) : mant[i] = 46}
      dot == IF dots = {} THEN Len(mant) + 1
             ELSE CHOOSE i \in dots : \A j \in dots : i <= j
      ipart == SubSeq(mant, 1, dot - 1)
      fpart == SubSeq(mant, dot + 1, Len(mant))
      ok == /\ AllDigits(ipart) /\ AllDigits(fpart)
            /\ Len(ipart) + Len(fpart) >= 1
            /\ (epos # {} => edigits # <<>> /\ AllDigits(edigits))
  IN  [ok |-> ok,
       m |-> IF ok THEN DigitsVal(ipart \o fpart) ELSE 0,
       e |-> IF ok THEN esign * DigitsVal(edigits) - Len(fpart) ELSE 0]

\* Python float(s) on a stripped string: a value, or Null for ValueError
ParseFloat(s) ==
  LET neg == s # <<>> /\ Head(s) = 45
      body == IF s # <<>> /\ Head(s) \in {43, 45} THEN Tail(s) ELSE s
      lb == Lower(body)
      u == FilterChars(body, CharsOf(body) \ {95})
      p == DecimalParts(u)
  IN  IF lb \in {<<105, 110, 102>>, <<105, 110, 102, 105, 110, 105, 116, 121>>}
        THEN <<"float", IF neg THEN "-inf" ELSE "inf">>
      ELSE IF lb = <<110, 97, 110>> THEN <<"float", "nan">>
      ELSE IF UnderscoresOk(body) /\ p.ok
        THEN Normalized((IF neg THEN -1 ELSE 1) * p.m, p.e)
      ELSE Null

\* fault variant: the thousands separators are left in the text
parse_value_commas_kept(value_str) ==
  IF value_str = None THEN Null
  ELSE LET cleaned == Strip(value_str)
       IN  IF cleaned = <<>>
              \/ cleaned \in {<<46, 46, 46>>, <<45, 45, 45, 45>>, <<110, 46, 97, 46>>}
           THEN Null
           ELSE ParseFloat(cleaned)

parse_value(value_str) ==
  IF value_str = None THEN Null
  ELSE LET cleaned == Strip(FilterChars(value_str, CharsOf(value_str) \ {44}))
       IN  IF cleaned = <<>>
              \/ cleaned \in {<<46, 46, 46>>, <<45, 45, 45, 45>>, <<110, 46, 97, 46>>}
           THEN Null
           ELSE ParseFloat(cleaned)

\* assets/nipa/nipa.py 36-42: the value parser of the asset pipeline; the bare
\* except turns every failure of float() into None
clean_numeric_value(value) ==
  IF \/ value = None
     \/ value = <<>>
     \/ value \in {<<110, 47, 97>>, <<78, 65>>, <<40, 78, 65, 41>>, <<40, 78, 77, 41>>}
  THEN Null
  ELSE ParseFloat(Strip(FilterChars(value, CharsOf(value) \ {44})))

(***************************************************************************)
(* normalize_date and detect_frequency (nipa_transform.py 40-60).          *)
(***************************************************************************)
\* re.match(r'^(\d{4})Q([1-4])$', s)
MatchesQuarterToken(s) ==
  /\ Len(s) >= 6
  /\ \A i \in 1..4 : IsDigit(s[i])
  /\ s[5] = 81
  /\ s[6] \in 49..52
  /\ AtDollar(s, 7)

\* re.match(r'^(\d{4})M(\d{2})$', s)
MatchesMonthToken(s) ==
  /\ Len(s) >= 7
  /\ \A i \in 1..4 : IsDigit(s[i])
  /\ s[5] = 77
  /\ IsDigit(s[6]) /\ IsDigit(s[7])
  /\ AtDollar(s, 8)

normalize_date(time_period, frequency) ==
  IF frequency = "quarterly" /\ MatchesQuarterToken(time_period)
    THEN SubSeq(time_period, 1, 4) \o <<45, 81>> \o SubSeq(time_period, 6, 6)
  ELSE IF frequency = "monthly" /\ MatchesMonthToken(time_period)
    THEN SubSeq(time_period, 1, 4) \o <<45>> \o SubSeq(time_period, 6, 7)
  ELSE time_period

detect_frequency(time_period) ==
  IF MatchesQuarterToken(time_period) THEN "quarterly"
  ELSE IF MatchesMonthToken(time_period) THEN "monthly"
  ELSE "annual"

(***************************************************************************)
(* extract_semantic_name (nipa_transform.py 62-253).                       *)
(***************************************************************************)
\* the static (section, subsection) -> subject table, as <<section, subsection, subject>>
subject_map ==
  <<
    <<<<49>>, <<49>>,
      <<103, 100, 112>>>>,   \* (1, 1): gdp
    <<<<49>>, <<50>>,
      <<103, 100, 112, 95, 98, 121, 95, 112, 114, 111, 100, 117, 99, 116>>>>,   \* (1, 2): gdp_by_product
    <<<<49>>, <<51>>,
      <<118, 97, 108, 117, 101, 95, 97, 100, 100, 101, 100, 95, 98, 121, 95, 115, 101, 99, 116, 111, 114>>>>,   \* (1, 3): value_added_by_sector
    <<<<49>>, <<52>>,
      <<103, 100, 112, 95, 112, 117, 114, 99, 104, 97, 115, 101, 115, 95, 102, 105, 110, 97, 108, 95, 115, 97, 108, 101, 115>>>>,   \* (1, 4): gdp_purchases_final_sales
    <<<<49>>, <<53>>,
      <<103, 100, 112, 95, 101, 120, 112, 97, 110, 100, 101, 100>>>>,   \* (1, 5): gdp_expanded
    <<<<49>>, <<54>>,
      <<100, 111, 109, 101, 115, 116, 105, 99, 95, 112, 117, 114, 99, 104, 97, 115, 101, 115>>>>,   \* (1, 6): domestic_purchases
    <<<<49>>, <<55>>,
      <<103, 100, 112, 95, 103, 110, 112, 95, 110, 110, 112>>>>,   \* (1, 7): gdp_gnp_nnp
    <<<<49>>, <<56>>,
      <<103, 100, 112, 95, 99, 111, 109, 109, 97, 110, 100, 95, 98, 97, 115, 105, 115>>>>,   \* (1, 8): gdp_command_basis
    <<<<49>>, <<57>>,
      <<110, 101, 116, 95, 118, 97, 108, 117, 101, 95, 97, 100, 100, 101, 100>>>>,   \* (1, 9): net_value_added
    <<<<49>>, <<49, 48>>,
      <<100, 111, 109, 101, 115, 116, 105, 99, 95, 105, 110, 99, 111, 109, 101>>>>,   \* (1, 10): domestic_income
    <<<<49>>, <<49, 49>>,
      <<100, 111, 109, 101, 115, 116, 105, 99, 95, 105, 110, 99, 111, 109, 101, 95, 115, 104, 97, 114, 101, 115>>>>,   \* (1, 11): domestic_income_shares
    <<<<49>>, <<49, 50>>,
      <<110, 97, 116, 105, 111, 110, 97, 108, 95, 105, 110, 99, 111, 109, 101>>>>,   \* (1, 12): national_income
    <<<<49>>, <<49, 51>>,
      <<110, 97, 116, 105, 111, 110, 97, 108, 95, 105, 110, 99, 111, 109, 101, 95, 98, 121, 95, 115, 101, 99, 116, 111, 114>>>>,   \* (1, 13): national_income_by_sector
    <<<<49>>, <<49, 52>>,
      <<99, 111, 114, 112, 111, 114, 97, 116, 101, 95, 118, 97, 108, 117, 101, 95, 97, 100, 100, 101, 100>>>>,   \* (1, 14): corporate_value_added
    <<<<49>>, <<49, 53>>,
      <<99, 111, 114, 112, 111, 114, 97, 116, 101, 95, 112, 114, 111, 102, 105, 116, 95, 112, 101, 114, 95, 117, 110, 105, 116>>>>,   \* (1, 15): corporate_profit_per_unit
    <<<<49>>, <<49, 54>>,
      <<112, 114, 105, 118, 97, 116, 101, 95, 101, 110, 116, 101, 114, 112, 114, 105, 115, 101, 95, 105, 110, 99, 111, 109, 101>>>>,   \* (1, 16): private_enterprise_income
    <<<<49>>, <<49, 55>>,
      <<103, 100, 112, 95, 103, 100, 105, 95, 97, 103, 103, 114, 101, 103, 97, 116, 101, 115>>>>,   \* (1, 17): gdp_gdi_aggregates
    <<<<50>>, <<49>>,
      <<112, 101, 114, 115, 111, 110, 97, 108, 95, 105, 110, 99, 111, 109, 101>>>>,   \* (2, 1): personal_income
    <<<<50>>, <<50>>,
      <<112, 101, 114, 115, 111, 110, 97, 108, 95, 105, 110, 99, 111, 109, 101, 95, 100, 105, 115, 112, 111, 115, 105, 116, 105, 111, 110>>>>,   \* (2, 2): personal_income_disposition
    <<<<50>>, <<51>>,
      <<112, 99, 101, 95, 98, 121, 95, 102, 117, 110, 99, 116, 105, 111, 110>>>>,   \* (2, 3): pce_by_function
    <<<<50>>, <<52>>,
      <<112, 99, 101, 95, 98, 121, 95, 116, 121, 112, 101>>>>,   \* (2, 4): pce_by_type
    <<<<50>>, <<53>>,
      <<112, 99, 101, 95, 98, 114, 105, 100, 103, 101, 115>>>>,   \* (2, 5): pce_bridges
    <<<<50>>, <<54>>,
      <<112, 101, 114, 115, 111, 110, 97, 108, 95, 105, 110, 99, 111, 109, 101, 95, 109, 111, 110, 116, 104, 108, 121>>>>,   \* (2, 6): personal_income_monthly
    <<<<50>>, <<55>>,
      <<119, 97, 103, 101, 115, 95, 109, 111, 110, 116, 104, 108, 121>>>>,   \* (2, 7): wages_monthly
    <<<<50>>, <<56>>,
      <<112, 99, 101, 95, 115, 117, 112, 112, 108, 101, 109, 101, 110, 116, 97, 108>>>>,   \* (2, 8): pce_supplemental
    <<<<51>>, <<49>>,
      <<103, 111, 118, 116, 95, 114, 101, 99, 101, 105, 112, 116, 115, 95, 101, 120, 112, 101, 110, 100, 105, 116, 117, 114, 101, 115>>>>,   \* (3, 1): govt_receipts_expenditures
    <<<<51>>, <<50>>,
      <<102, 101, 100, 101, 114, 97, 108, 95, 103, 111, 118, 116>>>>,   \* (3, 2): federal_govt
    <<<<51>>, <<51>>,
      <<115, 116, 97, 116, 101, 95, 108, 111, 99, 97, 108, 95, 103, 111, 118, 116>>>>,   \* (3, 3): state_local_govt
    <<<<51>>, <<52>>,
      <<103, 111, 118, 116, 95, 115, 111, 99, 105, 97, 108, 95, 98, 101, 110, 101, 102, 105, 116, 115>>>>,   \* (3, 4): govt_social_benefits
    <<<<51>>, <<53>>,
      <<103, 111, 118, 116, 95, 116, 97, 120, 101, 115>>>>,   \* (3, 5): govt_taxes
    <<<<51>>, <<54>>,
      <<103, 111, 118, 116, 95, 99, 111, 110, 116, 114, 105, 98, 117, 116, 105, 111, 110, 115>>>>,   \* (3, 6): govt_contributions
    <<<<51>>, <<55>>,
      <<103, 111, 118, 116, 95, 116, 97, 120, 101, 115, 95, 114, 101, 99, 101, 105, 112, 116, 115>>>>,   \* (3, 7): govt_taxes_receipts
    <<<<51>>, <<56>>,
      <<103, 111, 118, 116, 95, 115, 117, 98, 115, 105, 100, 105, 101, 115>>>>,   \* (3, 8): govt_subsidies
    <<<<51>>, <<57>>,
      <<103, 111, 118, 116, 95, 99, 111, 110, 115, 117, 109, 112, 116, 105, 111, 110>>>>,   \* (3, 9): govt_consumption
    <<<<51>>, <<49, 48>>,
      <<103, 111, 118, 116, 95, 99, 111, 110, 115, 117, 109, 112, 116, 105, 111, 110, 95, 111, 117, 116, 112, 117, 116>>>>,   \* (3, 10): govt_consumption_output
    <<<<51>>, <<49, 49>>,
      <<100, 101, 102, 101, 110, 115, 101, 95, 115, 112, 101, 110, 100, 105, 110, 103>>>>,   \* (3, 11): defense_spending
    <<<<51>>, <<49, 50>>,
      <<103, 111, 118, 116, 95, 111, 117, 116, 112, 117, 116>>>>,   \* (3, 12): govt_output
    <<<<51>>, <<49, 51>>,
      <<103, 111, 118, 116, 95, 101, 109, 112, 108, 111, 121, 109, 101, 110, 116>>>>,   \* (3, 13): govt_employment
    <<<<51>>, <<49, 52>>,
      <<103, 111, 118, 116, 95, 99, 111, 109, 112, 101, 110, 115, 97, 116, 105, 111, 110>>>>,   \* (3, 14): govt_compensation
    <<<<51>>, <<49, 53>>,
      <<103, 111, 118, 116, 95, 105, 110, 118, 101, 115, 116, 109, 101, 110, 116, 95, 100, 101, 116, 97, 105, 108>>>>,   \* (3, 15): govt_investment_detail
    <<<<51>>, <<49, 54>>,
      <<103, 111, 118, 116, 95, 114, 101, 99, 101, 105, 112, 116, 115, 95, 100, 101, 116, 97, 105, 108>>>>,   \* (3, 16): govt_receipts_detail
    <<<<51>>, <<49, 55>>,
      <<103, 111, 118, 116, 95, 115, 112, 101, 110, 100, 105, 110, 103, 95, 102, 117, 110, 99, 116, 105, 111, 110>>>>,   \* (3, 17): govt_spending_function
    <<<<51>>, <<49, 56>>,
      <<102, 101, 100, 101, 114, 97, 108, 95, 103, 111, 118, 116, 95, 100, 101, 116, 97, 105, 108>>>>,   \* (3, 18): federal_govt_detail
    <<<<51>>, <<49, 57>>,
      <<115, 116, 97, 116, 101, 95, 108, 111, 99, 97, 108, 95, 100, 101, 116, 97, 105, 108>>>>,   \* (3, 19): state_local_detail
    <<<<51>>, <<50, 48>>,
      <<115, 111, 99, 105, 97, 108, 95, 105, 110, 115, 117, 114, 97, 110, 99, 101>>>>,   \* (3, 20): social_insurance
    <<<<51>>, <<50, 49>>,
      <<115, 111, 99, 105, 97, 108, 95, 105, 110, 115, 117, 114, 97, 110, 99, 101, 95, 102, 117, 110, 100, 115>>>>,   \* (3, 21): social_insurance_funds
    <<<<52>>, <<49>>,
      <<116, 114, 97, 100, 101, 95, 98, 97, 108, 97, 110, 99, 101>>>>,   \* (4, 1): trade_balance
    <<<<52>>, <<50>>,
      <<101, 120, 112, 111, 114, 116, 115, 95, 105, 109, 112, 111, 114, 116, 115>>>>,   \* (4, 2): exports_imports
    <<<<52>>, <<51>>,
      <<116, 114, 97, 100, 101, 95, 100, 101, 116, 97, 105, 108>>>>,   \* (4, 3): trade_detail
    <<<<53>>, <<49>>,
      <<115, 97, 118, 105, 110, 103, 95, 105, 110, 118, 101, 115, 116, 109, 101, 110, 116>>>>,   \* (5, 1): saving_investment
    <<<<53>>, <<50>>,
      <<112, 114, 105, 118, 97, 116, 101, 95, 105, 110, 118, 101, 115, 116, 109, 101, 110, 116, 95, 116, 121, 112, 101>>>>,   \* (5, 2): private_investment_type
    <<<<53>>, <<51>>,
      <<112, 114, 105, 118, 97, 116, 101, 95, 102, 105, 120, 101, 100, 95, 105, 110, 118, 101, 115, 116, 109, 101, 110, 116>>>>,   \* (5, 3): private_fixed_investment
    <<<<53>>, <<52>>,
      <<110, 111, 110, 114, 101, 115, 105, 100, 101, 110, 116, 105, 97, 108, 95, 105, 110, 118, 101, 115, 116, 109, 101, 110, 116>>>>,   \* (5, 4): nonresidential_investment
    <<<<53>>, <<53>>,
      <<114, 101, 115, 105, 100, 101, 110, 116, 105, 97, 108, 95, 105, 110, 118, 101, 115, 116, 109, 101, 110, 116>>>>,   \* (5, 5): residential_investment
    <<<<53>>, <<54>>,
      <<105, 110, 118, 101, 115, 116, 109, 101, 110, 116, 95, 101, 113, 117, 105, 112, 109, 101, 110, 116>>>>,   \* (5, 6): investment_equipment
    <<<<53>>, <<55>>,
      <<105, 110, 118, 101, 110, 116, 111, 114, 105, 101, 115>>>>,   \* (5, 7): inventories
    <<<<53>>, <<56>>,
      <<105, 110, 118, 101, 110, 116, 111, 114, 105, 101, 115, 95, 100, 101, 116, 97, 105, 108>>>>,   \* (5, 8): inventories_detail
    <<<<53>>, <<57>>,
      <<103, 111, 118, 116, 95, 102, 105, 120, 101, 100, 95, 105, 110, 118, 101, 115, 116, 109, 101, 110, 116>>>>,   \* (5, 9): govt_fixed_investment
    <<<<53>>, <<49, 48>>,
      <<99, 97, 112, 105, 116, 97, 108, 95, 115, 116, 111, 99, 107>>>>,   \* (5, 10): capital_stock
    <<<<53>>, <<49, 49>>,
      <<99, 97, 112, 105, 116, 97, 108, 95, 99, 111, 110, 115, 117, 109, 112, 116, 105, 111, 110>>>>,   \* (5, 11): capital_consumption
    <<<<54>>, <<49>>,
      <<105, 110, 99, 111, 109, 101, 95, 98, 121, 95, 105, 110, 100, 117, 115, 116, 114, 121>>>>,   \* (6, 1): income_by_industry
    <<<<54>>, <<50>>,
      <<99, 111, 109, 112, 101, 110, 115, 97, 116, 105, 111, 110, 95, 98, 121, 95, 105, 110, 100, 117, 115, 116, 114, 121>>>>,   \* (6, 2): compensation_by_industry
    <<<<54>>, <<51>>,
      <<119, 97, 103, 101, 115, 95, 98, 121, 95, 105, 110, 100, 117, 115, 116, 114, 121>>>>,   \* (6, 3): wages_by_industry
    <<<<54>>, <<52>>,
      <<115, 117, 112, 112, 108, 101, 109, 101, 110, 116, 115, 95, 98, 121, 95, 105, 110, 100, 117, 115, 116, 114, 121>>>>,   \* (6, 4): supplements_by_industry
    <<<<54>>, <<53>>,
      <<101, 109, 112, 108, 111, 121, 109, 101, 110, 116, 95, 98, 121, 95, 105, 110, 100, 117, 115, 116, 114, 121>>>>,   \* (6, 5): employment_by_industry
    <<<<54>>, <<54>>,
      <<104, 111, 117, 114, 115, 95, 98, 121, 95, 105, 110, 100, 117, 115, 116, 114, 121>>>>,   \* (6, 6): hours_by_industry
    <<<<54>>, <<55>>,
      <<108, 97, 98, 111, 114, 95, 112, 114, 111, 100, 117, 99, 116, 105, 118, 105, 116, 121>>>>,   \* (6, 7): labor_productivity
    <<<<54>>, <<56>>,
      <<108, 97, 98, 111, 114, 95, 99, 111, 115, 116, 115>>>>,   \* (6, 8): labor_costs
    <<<<54>>, <<57>>,
      <<112, 114, 111, 112, 114, 105, 101, 116, 111, 114, 115, 95, 105, 110, 99, 111, 109, 101>>>>,   \* (6, 9): proprietors_income
    <<<<54>>, <<49, 48>>,
      <<114, 101, 110, 116, 97, 108, 95, 105, 110, 99, 111, 109, 101>>>>,   \* (6, 10): rental_income
    <<<<54>>, <<49, 49>>,
      <<99, 111, 114, 112, 111, 114, 97, 116, 101, 95, 112, 114, 111, 102, 105, 116, 115, 95, 98, 121, 95, 105, 110, 100, 117, 115, 116, 114, 121>>>>,   \* (6, 11): corporate_profits_by_industry
    <<<<54>>, <<49, 50>>,
      <<110, 101, 116, 95, 105, 110, 116, 101, 114, 101, 115, 116>>>>,   \* (6, 12): net_interest
    <<<<54>>, <<49, 51>>,
      <<116, 97, 120, 101, 115, 95, 98, 121, 95, 105, 110, 100, 117, 115, 116, 114, 121>>>>,   \* (6, 13): taxes_by_industry
    <<<<54>>, <<49, 52>>,
      <<99, 97, 112, 105, 116, 97, 108, 95, 99, 111, 110, 115, 117, 109, 112, 116, 105, 111, 110, 95, 98, 121, 95, 105, 110, 100, 117, 115, 116, 114, 121>>>>,   \* (6, 14): capital_consumption_by_industry
    <<<<54>>, <<49, 53>>,
      <<117, 110, 100, 105, 115, 116, 114, 105, 98, 117, 116, 101, 100, 95, 112, 114, 111, 102, 105, 116, 115>>>>,   \* (6, 15): undistributed_profits
    <<<<54>>, <<49, 54>>,
      <<99, 111, 114, 112, 111, 114, 97, 116, 101, 95, 112, 114, 111, 102, 105, 116, 115>>>>,   \* (6, 16): corporate_profits
    <<<<54>>, <<49, 55>>,
      <<99, 111, 114, 112, 111, 114, 97, 116, 101, 95, 112, 114, 111, 102, 105, 116, 115, 95, 100, 101, 116, 97, 105, 108>>>>,   \* (6, 17): corporate_profits_detail
    <<<<54>>, <<49, 56>>,
      <<112, 114, 111, 102, 105, 116, 115, 95, 105, 118, 97, 95, 99, 99, 97, 100, 106>>>>,   \* (6, 18): profits_iva_ccadj
    <<<<54>>, <<49, 57>>,
      <<112, 114, 111, 102, 105, 116, 115, 95, 102, 105, 110, 97, 110, 99, 105, 97, 108, 95, 110, 111, 110, 102, 105, 110, 97, 110, 99, 105, 97, 108>>>>,   \* (6, 19): profits_financial_nonfinancial
    <<<<54>>, <<50, 48>>,
      <<112, 114, 111, 102, 105, 116, 115, 95, 114, 101, 99, 101, 105, 112, 116, 115>>>>,   \* (6, 20): profits_receipts
    <<<<54>>, <<50, 49>>,
      <<112, 114, 111, 102, 105, 116, 115, 95, 116, 97, 120, 101, 115>>>>,   \* (6, 21): profits_taxes
    <<<<54>>, <<50, 50>>,
      <<112, 114, 111, 102, 105, 116, 115, 95, 97, 102, 116, 101, 114, 95, 116, 97, 120>>>>,   \* (6, 22): profits_after_tax
    <<<<55>>, <<49>>,
      <<109, 111, 116, 111, 114, 95, 118, 101, 104, 105, 99, 108, 101, 95, 111, 117, 116, 112, 117, 116>>>>,   \* (7, 1): motor_vehicle_output
    <<<<55>>, <<50>>,
      <<97, 117, 116, 111, 95, 111, 117, 116, 112, 117, 116>>>>,   \* (7, 2): auto_output
    <<<<55>>, <<51>>,
      <<102, 97, 114, 109, 95, 115, 101, 99, 116, 111, 114>>>>,   \* (7, 3): farm_sector
    <<<<55>>, <<52>>,
      <<104, 111, 117, 115, 105, 110, 103>>>>,   \* (7, 4): housing
    <<<<55>>, <<53>>,
      <<104, 111, 117, 115, 105, 110, 103, 95, 111, 117, 116, 112, 117, 116>>>>,   \* (7, 5): housing_output
    <<<<55>>, <<54>>,
      <<110, 111, 110, 112, 114, 111, 102, 105, 116, 95, 105, 110, 115, 116, 105, 116, 117, 116, 105, 111, 110, 115>>>>,   \* (7, 6): nonprofit_institutions
    <<<<55>>, <<55>>,
      <<102, 111, 111, 100, 95, 115, 101, 114, 118, 105, 99, 101, 115>>>>,   \* (7, 7): food_services
    <<<<55>>, <<56>>,
      <<112, 101, 116, 114, 111, 108, 101, 117, 109>>>>,   \* (7, 8): petroleum
    <<<<55>>, <<57>>,
      <<101, 110, 101, 114, 103, 121>>>>,   \* (7, 9): energy
    <<<<55>>, <<49, 48>>,
      <<99, 112, 105, 95, 112, 99, 101, 95, 99, 111, 109, 112, 97, 114, 105, 115, 111, 110>>>>,   \* (7, 10): cpi_pce_comparison
    <<<<55>>, <<49, 49>>,
      <<105, 109, 112, 108, 105, 99, 105, 116, 95, 100, 101, 102, 108, 97, 116, 111, 114, 115>>>>,   \* (7, 11): implicit_deflators
    <<<<55>>, <<49, 50>>,
      <<114, 101, 97, 108, 95, 112, 99, 101, 95, 100, 101, 116, 97, 105, 108>>>>,   \* (7, 12): real_pce_detail
    <<<<55>>, <<49, 51>>,
      <<112, 99, 101, 95, 98, 121, 95, 102, 117, 110, 99, 116, 105, 111, 110, 95, 100, 101, 116, 97, 105, 108>>>>,   \* (7, 13): pce_by_function_detail
    <<<<55>>, <<49, 52>>,
      <<102, 97, 114, 109, 95, 105, 110, 99, 111, 109, 101>>>>,   \* (7, 14): farm_income
    <<<<55>>, <<49, 53>>,
      <<102, 97, 114, 109, 95, 105, 110, 99, 111, 109, 101, 95, 100, 101, 116, 97, 105, 108>>>>,   \* (7, 15): farm_income_detail
    <<<<55>>, <<49, 54>>,
      <<103, 111, 118, 116, 95, 115, 111, 99, 105, 97, 108, 95, 105, 110, 115, 117, 114, 97, 110, 99, 101>>>>,   \* (7, 16): govt_social_insurance
    <<<<55>>, <<49, 55>>,
      <<101, 109, 112, 108, 111, 121, 101, 114, 95, 99, 111, 110, 116, 114, 105, 98, 117, 116, 105, 111, 110, 115>>>>,   \* (7, 17): employer_contributions
    <<<<55>>, <<49, 56>>,
      <<99, 111, 110, 116, 114, 105, 98, 117, 116, 105, 111, 110, 115, 95, 100, 101, 116, 97, 105, 108>>>>,   \* (7, 18): contributions_detail
    <<<<55>>, <<50, 48>>,
      <<112, 101, 110, 115, 105, 111, 110, 115, 95, 100, 101, 102, 105, 110, 101, 100, 95, 98, 101, 110, 101, 102, 105, 116>>>>,   \* (7, 20): pensions_defined_benefit
    <<<<55>>, <<50, 49>>,
      <<112, 101, 110, 115, 105, 111, 110, 115, 95, 100, 101, 102, 105, 110, 101, 100, 95, 99, 111, 110, 116, 114, 105, 98, 117, 116, 105, 111, 110>>>>,   \* (7, 21): pensions_defined_contribution
    <<<<55>>, <<50, 50>>,
      <<112, 101, 110, 115, 105, 111, 110, 115, 95, 102, 101, 100, 101, 114, 97, 108>>>>,   \* (7, 22): pensions_federal
    <<<<55>>, <<50, 51>>,
      <<112, 101, 110, 115, 105, 111, 110, 115, 95, 115, 116, 97, 116, 101, 95, 108, 111, 99, 97, 108>>>>,   \* (7, 23): pensions_state_local
    <<<<55>>, <<50, 52>>,
      <<112, 101, 110, 115, 105, 111, 110, 115, 95, 112, 114, 105, 118, 97, 116, 101>>>>,   \* (7, 24): pensions_private
    <<<<55>>, <<50, 53>>,
      <<112, 101, 110, 115, 105, 111, 110, 115, 95, 105, 114, 97, 95, 107, 101, 111, 103, 104>>>>,   \* (7, 25): pensions_ira_keogh
    <<<<56>>, <<49>>,
      <<103, 100, 112, 95, 110, 115, 97>>>>,   \* (8, 1): gdp_nsa
    <<<<56>>, <<51>>,
      <<102, 101, 100, 101, 114, 97, 108, 95, 103, 111, 118, 116, 95, 110, 115, 97>>>>,   \* (8, 3): federal_govt_nsa
    <<<<56>>, <<52>>,
      <<115, 116, 97, 116, 101, 95, 108, 111, 99, 97, 108, 95, 103, 111, 118, 116, 95, 110, 115, 97>>>>   \* (8, 4): state_local_govt_nsa
  >>

\* the section -> name fallback, as <<section, name>>:
\* 1 gdp, 2 personal, 3 govt, 4 trade, 5 investment, 6 industry, 7 supplemental, 8 nsa
section_names ==
  <<
    <<<<49>>, <<103, 100, 112>>>>,
    <<<<50>>, <<112, 101, 114, 115, 111, 110, 97, 108>>>>,
    <<<<51>>, <<103, 111, 118, 116>>>>,
    <<<<52>>, <<116, 114, 97, 100, 101>>>>,
    <<<<53>>, <<105, 110, 118, 101, 115, 116, 109, 101, 110, 116>>>>,
    <<<<54>>, <<105, 110, 100, 117, 115, 116, 114, 121>>>>,
    <<<<55>>, <<115, 117, 112, 112, 108, 101, 109, 101, 110, 116, 97, 108>>>>,
    <<<<56>>, <<110, 115, 97>>>>
  >>

\* the last position of the longest run of digits of d that starts at position p
\* (p - 1 when there is no digit at p)
RECURSIVE DigitRunEnd(_, _)
DigitRunEnd(d, p) ==
  IF p <= Len(d) /\ IsDigit(d[p]) THEN DigitRunEnd(d, p + 1) ELSE p - 1

\* [A-Z]? then the literal ". " from position q: the variant letter, if any, is
\* the capital right before the ". "
VariantAndDot(d, q) ==
  LET hasVariant == q <= Len(d) /\ IsUpper(d[q])
      dot == IF hasVariant THEN q + 1 ELSE q
  IN  [ok |-> MatchAt(d, dot, <<46, 32>>),
       variant |-> IF hasVariant THEN <<d[q]>> ELSE <<>>,
       titleStart |-> dot + 2]

\* the positions e where the lazy title group (.+?) may end: " (" and one of
\* A, Q, M follow at e, the title is not empty and holds no newline
TitleEnds(d, t0) ==
  {e \in (t0 + 1)..Len(d) :
     /\ MatchAt(d, e, <<32, 40>>)
     /\ e + 2 <= Len(d) /\ d[e + 2] \in {65, 81, 77}
     /\ \A i \in t0..(e - 1) : d[i] # 10}

NoMatch ==
  [ok |-> FALSE, section |-> <<>>, subsection |-> <<>>, variant |-> <<>>,
   title |-> <<>>]

\* \.?\d*([A-Z])?\.  from position q, right after the subsection: \.? takes
\* the dot and \d* the digits after it (withDot), or both match nothing (noDot)
AfterSubsection(d, q, withDot, noDot) ==
  IF q <= Len(d) /\ d[q] = 46 /\ withDot.ok THEN withDot ELSE noDot

\* the groups of a match, given the ends e1, e2 of the greedy digit groups
\* (\d+), the parse of what follows them and the possible ends of the lazy
\* title (.+?), of which the first is taken
MatchGroups(d, s, e1, e2, rest, ends) ==
  IF /\ MatchAt(d, s, <<84, 97, 98, 108, 101, 32>>)
     /\ e1 >= s + 6
     /\ e1 + 1 <= Len(d) /\ d[e1 + 1] = 46
     /\ e2 >= e1 + 2
     /\ rest.ok
     /\ ends # {}
  THEN [ok |-> TRUE,
        section |-> SubSeq(d, s + 6, e1),
        subsection |-> SubSeq(d, e1 + 2, e2),
        variant |-> rest.variant,
        title |-> SubSeq(d, rest.titleStart,
                         (CHOOSE e \in ends : \A f \in ends : e <= f) - 1)]
  ELSE NoMatch

MatchAfterTitleStart(d, s, e1, e2, rest) ==
  MatchGroups(d, s, e1, e2, rest, TitleEnds(d, rest.titleStart))

MatchAfterSubsection(d, s, e1, e2) ==
  MatchAfterTitleStart(d, s, e1, e2,
    AfterSubsection(d, e2 + 1,
                    VariantAndDot(d, DigitRunEnd(d, e2 + 2) + 1),
                    VariantAndDot(d, e2 + 1)))

MatchAfterSection(d, s, e1) ==
  MatchAfterSubsection(d, s, e1, DigitRunEnd(d, e1 + 2))

\* the match of r'Table (\d+)\.(\d+)\.?\d*([A-Z])?\. (.+?) \([AQM]' that starts
\* at position s of d
TableMatchAt(d, s) == MatchAfterSection(d, s, DigitRunEnd(d, s + 6))

\* the least element of a set of positions, 0 when it is empty
FirstOf(positions) ==
  IF positions = {} THEN 0
  ELSE CHOOSE s \in positions : \A t \in positions : s <= t

\* re.search: the match at the leftmost position where one exists
TableSearch(d) ==
  TableMatchAt(d, FirstOf({s \in 1..Len(d) : TableMatchAt(d, s).ok}))

\* subject_map.get((section, subsection)), <<>> on a miss
SubjectLookup(section, subsection) ==
  LET hits == {i \in 1..Len(subject_map) :
                 subject_map[i][1] = section /\ subject_map[i][2] = subsection}
  IN  IF hits = {} THEN <<>> ELSE subject_map[CHOOSE i \in hits : TRUE][3]

\* section_names.get(section, f's{section}')
SectionName(section) ==
  LET hits == {i \in 1..Len(section_names) : section_names[i][1] = section}
  IN  IF hits = {} THEN <<115>> \o section
      ELSE section_names[CHOOSE i \in hits : TRUE][2]

\* fault variant: the general phrase 'percent change' is looked for first
MeasurementGeneralFirst(title_lower) ==
  IF Contains(title_lower, <<112, 101, 114, 99, 101, 110, 116, 32, 99, 104, 97, 110, 103, 101>>)
    THEN <<112, 101, 114, 99, 101, 110, 116, 95, 99, 104, 97, 110, 103, 101>>
  ELSE <<108, 101, 118, 101, 108>>

\* the ordered phrase rules on the lowercased title; the first that applies wins
Measurement(title_lower) ==
  \* 'contributions to percent change in real' -> contributions_real
  IF Contains(title_lower, <<99, 111, 110, 116, 114, 105, 98, 117, 116, 105, 111, 110, 115, 32, 116, 111, 32, 112, 101, 114, 99, 101, 110, 116, 32, 99, 104, 97, 110, 103, 101, 32, 105, 110, 32, 114, 101, 97, 108>>)
    THEN <<99, 111, 110, 116, 114, 105, 98, 117, 116, 105, 111, 110, 115, 95, 114, 101, 97, 108>>
  \* 'contributions to percent change in' and 'price' -> contributions_price
  ELSE IF Contains(title_lower, <<99, 111, 110, 116, 114, 105, 98, 117, 116, 105, 111, 110, 115, 32, 116, 111, 32, 112, 101, 114, 99, 101, 110, 116, 32, 99, 104, 97, 110, 103, 101, 32, 105, 110>>)
          /\ Contains(title_lower, <<112, 114, 105, 99, 101>>)
    THEN <<99, 111, 110, 116, 114, 105, 98, 117, 116, 105, 111, 110, 115, 95, 112, 114, 105, 99, 101>>
  \* 'contributions to percent change' -> contributions
  ELSE IF Contains(title_lower, <<99, 111, 110, 116, 114, 105, 98, 117, 116, 105, 111, 110, 115, 32, 116, 111, 32, 112, 101, 114, 99, 101, 110, 116, 32, 99, 104, 97, 110, 103, 101>>)
    THEN <<99, 111, 110, 116, 114, 105, 98, 117, 116, 105, 111, 110, 115>>
  \* 'percent change from quarter one year ago' -> percent_change_yoy
  ELSE IF Contains(title_lower, <<112, 101, 114, 99, 101, 110, 116, 32, 99, 104, 97, 110, 103, 101, 32, 102, 114, 111, 109, 32, 113, 117, 97, 114, 116, 101, 114, 32, 111, 110, 101, 32, 121, 101, 97, 114, 32, 97, 103, 111>>)
    THEN <<112, 101, 114, 99, 101, 110, 116, 95, 99, 104, 97, 110, 103, 101, 95, 121, 111, 121>>
  \* 'percent change from preceding period in prices' -> price_percent_change
  ELSE IF Contains(title_lower, <<112, 101, 114, 99, 101, 110, 116, 32, 99, 104, 97, 110, 103, 101, 32, 102, 114, 111, 109, 32, 112, 114, 101, 99, 101, 100, 105, 110, 103, 32, 112, 101, 114, 105, 111, 100, 32, 105, 110, 32, 112, 114, 105, 99, 101, 115>>)
    THEN <<112, 114, 105, 99, 101, 95, 112, 101, 114, 99, 101, 110, 116, 95, 99, 104, 97, 110, 103, 101>>
  \* 'percent change' -> percent_change
  ELSE IF Contains(title_lower, <<112, 101, 114, 99, 101, 110, 116, 32, 99, 104, 97, 110, 103, 101>>)
    THEN <<112, 101, 114, 99, 101, 110, 116, 95, 99, 104, 97, 110, 103, 101>>
  \* 'quantity indexes' or 'quantity index' -> quantity_index
  ELSE IF Contains(title_lower, <<113, 117, 97, 110, 116, 105, 116, 121, 32, 105, 110, 100, 101, 120, 101, 115>>) \/ Contains(title_lower, <<113, 117, 97, 110, 116, 105, 116, 121, 32, 105, 110, 100, 101, 120>>)
    THEN <<113, 117, 97, 110, 116, 105, 116, 121, 95, 105, 110, 100, 101, 120>>
  \* 'price indexes' or 'price index' -> price_index
  ELSE IF Contains(title_lower, <<112, 114, 105, 99, 101, 32, 105, 110, 100, 101, 120, 101, 115>>) \/ Contains(title_lower, <<112, 114, 105, 99, 101, 32, 105, 110, 100, 101, 120>>)
    THEN <<112, 114, 105, 99, 101, 95, 105, 110, 100, 101, 120>>
  \* 'implicit price deflator' -> deflator
  ELSE IF Contains(title_lower, <<105, 109, 112, 108, 105, 99, 105, 116, 32, 112, 114, 105, 99, 101, 32, 100, 101, 102, 108, 97, 116, 111, 114>>)
    THEN <<100, 101, 102, 108, 97, 116, 111, 114>>
  \* 'chained dollars' -> chained_dollars
  ELSE IF Contains(title_lower, <<99, 104, 97, 105, 110, 101, 100, 32, 100, 111, 108, 108, 97, 114, 115>>)
    THEN <<99, 104, 97, 105, 110, 101, 100, 95, 100, 111, 108, 108, 97, 114, 115>>
  \* 'percentage shares' -> shares
  ELSE IF Contains(title_lower, <<112, 101, 114, 99, 101, 110, 116, 97, 103, 101, 32, 115, 104, 97, 114, 101, 115>>)
    THEN <<115, 104, 97, 114, 101, 115>>
  \* 'current dollars' -> current_dollars
  ELSE IF Contains(title_lower, <<99, 117, 114, 114, 101, 110, 116, 32, 100, 111, 108, 108, 97, 114, 115>>)
    THEN <<99, 117, 114, 114, 101, 110, 116, 95, 100, 111, 108, 108, 97, 114, 115>>
  \* 'relation of' -> relation
  ELSE IF Contains(title_lower, <<114, 101, 108, 97, 116, 105, 111, 110, 32, 111, 102>>)
    THEN <<114, 101, 108, 97, 116, 105, 111, 110>>
  \* 'transactions of' -> transactions
  ELSE IF Contains(title_lower, <<116, 114, 97, 110, 115, 97, 99, 116, 105, 111, 110, 115, 32, 111, 102>>)
    THEN <<116, 114, 97, 110, 115, 97, 99, 116, 105, 111, 110, 115>>
  \* none -> level
  ELSE <<108, 101, 118, 101, 108>>

\* lines 204-212: the mapped subject, or the section name with the subsection
SubjectOr(mapped, section, subsection) ==
  IF mapped # <<>> THEN mapped
  ELSE SectionName(section) \o <<95>> \o subsection

\* fault variant: the variant letter is dropped
WithoutVariant(subject, variant) == subject

\* lines 250-251: the variant letter, lowercased, is appended to the subject
WithVariant(subject, variant) ==
  IF variant # <<>> THEN subject \o <<95>> \o Lower(variant) ELSE subject

\* fault variant: the fallback keeps the case of the table name
SemanticNameCaseKept(table_name, match) ==
  IF ~match.ok
  THEN [subject |-> table_name, measurement |-> <<100, 97, 116, 97>>]
  ELSE [subject |-> WithVariant(SubjectOr(SubjectLookup(match.section,
                                                        match.subsection),
                                          match.section, match.subsection),
                                match.variant),
        measurement |-> Measurement(Lower(match.title))]

\* the pair (subject, measurement), as [subject, measurement], from the match
SemanticName(table_name, match) ==
  IF ~match.ok
  THEN [subject |-> Lower(table_name), measurement |-> <<100, 97, 116, 97>>]
  ELSE [subject |-> WithVariant(SubjectOr(SubjectLookup(match.section,
                                                        match.subsection),
                                          match.section, match.subsection),
                                match.variant),
        measurement |-> Measurement(Lower(match.title))]

extract_semantic_name(table_name, description) ==
  SemanticName(table_name, TableSearch(description))

(***************************************************************************)
(* transform_table_frequency (nipa_transform.py 255-302).                  *)
(*                                                                         *)
(* A raw record is [TimePeriod, LineDescription, DataValue] (DataValue may *)
(* be None).  A cell of a row or of a table column is <<"str", s>>, a      *)
(* float or Null.  The result is [kind, schema, columns]: kind "none" for  *)
(* Python's None, "raise" when pa.Table.from_pylist raises, and "table"    *)
(* with the field names (schema) and one array of cells per field.         *)
(***************************************************************************)
DateName == <<100, 97, 116, 101>>   \* "date"

StrCell(s) == <<"str", s>>

IsStrCell(c) == c[1] = "str"

IsFloatCell(c) == c[1] = "float"

Range(seq) == {seq[i] : i \in 1..Len(seq)}

EmptyDict == [k \in {} |-> Null]

\* d[k] = v on a dict
DictSet(d, k, v) == (k :> v) @@ d

\* d.get(k): Null (None) when the key is absent
DictGet(d, k) == IF k \in DOMAIN d THEN d[k] ELSE Null

NoTable == [kind |-> "none", schema |-> <<>>, columns |-> <<>>]

RaisedTable == [kind |-> "raise", schema |-> <<>>, columns |-> <<>>]

\* fault variant: a record with an unusable column name is kept
SurvivesAnyName(r, frequency) ==
  /\ detect_frequency(r.TimePeriod) = frequency
  /\ normalize_date(r.TimePeriod, frequency) # <<>>

\* fault variant: the form of the period token is not looked at
SurvivesAnyPeriod(r, frequency) ==
  /\ normalize_date(r.TimePeriod, frequency) # <<>>
  /\ r.LineDescription # <<>>
  /\ slugify(r.LineDescription) # <<>>

\* the record survives the filters of the loop body (lines 267-279)
Survives(r, frequency) ==
  /\ detect_frequency(r.TimePeriod) = frequency
  /\ normalize_date(r.TimePeriod, frequency) # <<>>
  /\ r.LineDescription # <<>>
  /\ slugify(r.LineDescription) # <<>>

\* fault variant: a new column name is put in front of the earlier ones
AccumulateNewestFirst(acc, date, col_name, value) ==
  [date_rows |->
     DictSet(acc.date_rows, date,
             DictSet(IF date \in DOMAIN acc.date_rows THEN acc.date_rows[date]
                     ELSE EmptyDict,
                     col_name, value)),
   column_order |-> IF col_name \in Range(acc.column_order)
                    THEN acc.column_order
                    ELSE <<col_name>> \o acc.column_order]

\* lines 281-285 for a record that survives: the column is noted when first
\* seen and the cell is written
Accumulate(acc, date, col_name, value) ==
  [date_rows |->
     DictSet(acc.date_rows, date,
             DictSet(IF date \in DOMAIN acc.date_rows THEN acc.date_rows[date]
                     ELSE EmptyDict,
                     col_name, value)),
   column_order |-> IF col_name \in Range(acc.column_order)
                    THEN acc.column_order
                    ELSE Append(acc.column_order, col_name)]

\* one pass of the loop body over record r: acc is [date_rows, column_order]
PivotRecord(acc, r, frequency) ==
  IF ~Survives(r, frequency) THEN acc
  ELSE Accumulate(acc, normalize_date(r.TimePeriod, frequency),
                  slugify(r.LineDescription), parse_value(r.DataValue))

\* the loop over the first n records
RECURSIVE PivotLoop(_, _, _)
PivotLoop(records, n, frequency) ==
  IF n = 0 THEN [date_rows |-> EmptyDict, column_order |-> <<>>]
  ELSE PivotRecord(PivotLoop(records, n - 1, frequency), records[n], frequency)

\* row = {'date': date}; then row[col] = date_rows[date].get(col) for each column
RECURSIVE FillRow(_, _, _, _)
FillRow(date, cells, column_order, n) ==
  IF n = 0 THEN DictSet(EmptyDict, DateName, StrCell(date))
  ELSE DictSet(FillRow(date, cells, column_order, n - 1),
               column_order[n], DictGet(cells, column_order[n]))

\* pa.Table.from_pylist(rows, schema): one array per schema field, read from
\* the rows by field name; a float in the string field `date` (the first
\* field) raises, a null does not (nullability is not enforced)
from_pylist(rows, schema) ==
  LET column(k) == [i \in 1..Len(rows) |-> DictGet(rows[i], schema[k])]
  IN  IF \E i \in 1..Len(rows) : IsFloatCell(column(1)[i])
      THEN RaisedTable
      ELSE [kind |-> "table", schema |-> schema,
            columns |-> [k \in 1..Len(schema) |-> column(k)]]

\* lines 290-295: one row per date, in sorted order
Rows(acc, dates) ==
  [i \in 1..Len(dates) |->
     FillRow(dates[i], acc.date_rows[dates[i]], acc.column_order,
             Len(acc.column_order))]

\* lines 287-302, after the loop
TableOf(acc) ==
  IF DOMAIN acc.date_rows = {} THEN NoTable
  ELSE from_pylist(Rows(acc, SortedSeq(DOMAIN acc.date_rows)),
                   <<DateName>> \o acc.column_order)

transform_table_frequency(records, frequency) ==
  IF records = <<>> THEN NoTable
  ELSE TableOf(PivotLoop(records, Len(records), frequency))

\* len(table)
TableLen(table) == IF table.columns = <<>> THEN 0 ELSE Len(table.columns[1])

\* table.column('date') raises KeyError unless exactly one field has that name
HasOneDateField(table) ==
  Cardinality({k \in 1..Len(table.schema) : table.schema[k] = DateName}) = 1

\* table.column('date').to_pylist()
DateColumn(table) == table.columns[1]

\* [f.name for f in table.schema if f.name != 'date']
DataColumns(table) == SelectSeq(table.schema, LAMBDA n : n # DateName)

(***************************************************************************)
(* make_dataset_id (nipa_transform.py 304-312).                            *)
(***************************************************************************)
Frequencies == <<"annual", "quarterly", "monthly">>

\* the characters of a frequency label
FrequencyStr(frequency) ==
  CASE frequency = "annual" -> <<97, 110, 110, 117, 97, 108>>
    [] frequency = "quarterly" -> <<113, 117, 97, 114, 116, 101, 114, 108, 121>>
    [] frequency = "monthly" -> <<109, 111, 110, 116, 104, 108, 121>>

\* f"bea_{subject}_{measurement}_{frequency}"
BaseId(name, frequency) ==
  <<98, 101, 97, 95>> \o name.subject \o <<95>> \o name.measurement
    \o <<95>> \o FrequencyStr(frequency)

\* fault variant: the collision suffix is not appended
WithSuffixDropped(base_id, suffix) == base_id

\* f"{base_id}_{suffix}" when there is a suffix
WithSuffix(base_id, suffix) ==
  IF suffix # <<>> THEN base_id \o <<95>> \o suffix ELSE base_id

make_dataset_id(table_name, description, frequency, suffix) ==
  WithSuffix(BaseId(extract_semantic_name(table_name, description), frequency),
             suffix)

(***************************************************************************)
(* test, the validator (nipa_transform.py 357-405; the same function is    *)
(* src/src/transforms/nipa_data/test.py 8-56).  TRUE when it returns,      *)
(* FALSE when it raises.                                                   *)
(***************************************************************************)
\* validate(table, {columns, not_null: ['date'], unique: ['date'], min_rows: 1})
validate(table) ==
  LET dates == DateColumn(table)
  IN  /\ \A i \in 1..Len(dates) : IsStrCell(dates[i])
      /\ \A i, j \in 1..Len(dates) : dates[i] = dates[j] => i = j
      /\ TableLen(table) >= 1

\* re.match(r'^\d{4}$', d)
MatchesAnnualDate(d) ==
  /\ Len(d) >= 4
  /\ \A i \in 1..4 : IsDigit(d[i])
  /\ AtDollar(d, 5)

\* re.match(r'^\d{4}-Q[1-4]$', d)
MatchesQuarterlyDate(d) ==
  /\ Len(d) >= 7
  /\ \A i \in 1..4 : IsDigit(d[i])
  /\ d[5] = 45 /\ d[6] = 81
  /\ d[7] \in 49..52
  /\ AtDollar(d, 8)

\* re.match(r'^\d{4}-\d{2}$', d)
MatchesMonthlyDate(d) ==
  /\ Len(d) >= 7
  /\ \A i \in 1..4 : IsDigit(d[i])
  /\ d[5] = 45
  /\ IsDigit(d[6]) /\ IsDigit(d[7])
  /\ AtDollar(d, 8)

\* the date format assertions of lines 387-398
DateFormatOk(d, frequency) ==
  CASE frequency = "annual" -> MatchesAnnualDate(d)
    [] frequency = "quarterly" -> MatchesQuarterlyDate(d)
    [] frequency = "monthly" -> MatchesMonthlyDate(d)
    [] OTHER -> TRUE

test(table, frequency) ==
  LET dates == DateColumn(table)
  IN  /\ validate(table)
      /\ HasOneDateField(table)
      /\ \A i \in 1..Len(dates) : DateFormatOk(dates[i][2], frequency)
      /\ IsSorted([i \in 1..Len(dates) |-> dates[i][2]])
      /\ Len(DataColumns(table)) >= 1

(***************************************************************************)
(* The collision pass of run (nipa_transform.py 412-427).                  *)
(***************************************************************************)
\* f"{subject}_{measurement}"
JoinKey(name) == name.subject \o <<95>> \o name.measurement

\* the base key of a catalog entry
BaseKey(table_info) ==
  JoinKey(extract_semantic_name(table_info.TableName, table_info.Description))

\* base_id_counts[base_key].append(table_name); counts is the list of
\* [base_key, table_names] in the order in which the keys were first seen
AppendName(counts, base_key, table_name) ==
  IF \E g \in 1..Len(counts) : counts[g].base_key = base_key
  THEN [g \in 1..Len(counts) |->
          IF counts[g].base_key = base_key
          THEN [counts[g] EXCEPT !.table_names = Append(@, table_name)]
          ELSE counts[g]]
  ELSE Append(counts, [base_key |-> base_key, table_names |-> <<table_name>>])

\* base_id_counts after the first n entries of the catalog
RECURSIVE BaseIdCounts(_, _)
BaseIdCounts(catalog, n) ==
  IF n = 0 THEN <<>>
  ELSE AppendName(BaseIdCounts(catalog, n - 1), BaseKey(catalog[n]),
                  catalog[n].TableName)

\* sorted(table_names) of a list: Python's sort keeps duplicates
RECURSIVE SortedList(_)
\* fault variant: the table names of a group are numbered in catalog order
UnsortedList(l) == l

SortedList(l) ==
  IF l = <<>> THEN <<>>
  ELSE LET m == CHOOSE i \in 1..Len(l) : \A j \in 1..Len(l) : StrLeq(l[i], l[j])
       IN  <<l[m]>> \o SortedList([k \in 1..(Len(l) - 1) |->
                                     IF k < m THEN l[k] ELSE l[k + 1]])

\* for i, tn in enumerate(sorted_names, 1): suffix_map[tn] = str(i), up to i = n
RECURSIVE NumberNames(_, _, _)
NumberNames(suffix_map, sorted_names, n) ==
  IF n = 0 THEN suffix_map
  ELSE DictSet(NumberNames(suffix_map, sorted_names, n - 1),
               sorted_names[n], IntToStr(n))

\* lines 424-427 for one key: only a key with more than one table name numbers
NumberGroup(suffix_map, table_names) ==
  IF Len(table_names) > 1
  THEN NumberNames(suffix_map, SortedList(table_names), Len(table_names))
  ELSE suffix_map

\* the loop over base_id_counts.items(), up to the g-th key
RECURSIVE SuffixMapLoop(_, _)
SuffixMapLoop(counts, g) ==
  IF g = 0 THEN [tn \in {} |-> <<>>]
  ELSE NumberGroup(SuffixMapLoop(counts, g - 1), counts[g].table_names)

SuffixMapOf(counts) == SuffixMapLoop(counts, Len(counts))

SuffixMap(catalog) == SuffixMapOf(BaseIdCounts(catalog, Len(catalog)))

\* fault variant: no table gets a suffix
SuffixOfNothing(suffix_map, table_name) == <<>>

\* suffix_map.get(table_name, "")
SuffixOf(suffix_map, table_name) ==
  IF table_name \in DOMAIN suffix_map THEN suffix_map[table_name] ELSE <<>>

(***************************************************************************)
(* Inputs: the catalog (load_nipa_tables), the raw data of a table         *)
(* (load_raw_json) and the record lists handed to the pivot.               *)
(***************************************************************************)
\* the code points of the texts the inputs are made of
Text(s) ==
  CASE s = "2024" -> <<50, 48, 50, 52>>
    [] s = "T10105" -> <<84, 49, 48, 49, 48, 53>>
    [] s = "T10106" -> <<84, 49, 48, 49, 48, 54>>
    [] s = "T10107" -> <<84, 49, 48, 49, 48, 55>>
    [] s = "t1" -> <<116, 49>>
    [] s = "T1" -> <<84, 49>>
    [] s = "2023" -> <<50, 48, 50, 51>>
    [] s = "2024Q1" -> <<50, 48, 50, 52, 81, 49>>
    [] s = "2023Q4" -> <<50, 48, 50, 51, 81, 52>>
    [] s = "2024Q5" -> <<50, 48, 50, 52, 81, 53>>
    [] s = "2024M01" -> <<50, 48, 50, 52, 77, 48, 49>>
    [] s = "GDP" -> <<71, 68, 80>>
    [] s = "gdp" -> <<103, 100, 112>>
    [] s = "PCE" -> <<80, 67, 69>>
    [] s = "--" -> <<45, 45>>
    [] s = "Date" -> <<68, 97, 116, 101>>
    [] s = "1.5" -> <<49, 46, 53>>
    [] s = "2" -> <<50>>
    [] s = "1,000" -> <<49, 44, 48, 48, 48>>
    [] s = "..." -> <<46, 46, 46>>
    [] s = "National Data" ->
         <<78, 97, 116, 105, 111, 110, 97, 108, 32, 68, 97, 116, 97>>
    [] s = "Table 1.1.5. Gross Domestic Product (A) (Q)" ->
         <<84, 97, 98, 108, 101, 32, 49, 46, 49, 46, 53, 46, 32, 71, 114, 111,
           115, 115, 32, 68, 111, 109, 101, 115, 116, 105, 99, 32, 80, 114, 111,
           100, 117, 99, 116, 32, 40, 65, 41, 32, 40, 81, 41>>

Entry(table_name, description) ==
  [TableName |-> table_name, Description |-> description]

\* "Table 1.1.5. Gross Domestic Product (A) (Q)" is classified by its table
\* number; "National Data" has none and the classifier falls back
CatalogPool ==
  << Entry(Text("T10105"), Text("Table 1.1.5. Gross Domestic Product (A) (Q)")),
     Entry(Text("T10106"), Text("Table 1.1.5. Gross Domestic Product (A) (Q)")),
     Entry(Text("T10107"), Text("Table 1.1.5. Gross Domestic Product (A) (Q)")),
     Entry(Text("t1"), Text("National Data")),
     Entry(Text("T1"), Text("National Data")) >>

\* the catalogs: up to MaxCatalog entries of the pool, in any order, with
\* pairwise distinct table identifiers
Catalogs ==
  LET picks == UNION {[1..n -> 1..Len(CatalogPool)] : n \in 0..MaxCatalog}
  IN  {[i \in 1..Len(p) |-> CatalogPool[p[i]]] :
         p \in {q \in picks : \A i, j \in 1..Len(q) : q[i] = q[j] => i = j}}

Record(time_period, line_description, data_value) ==
  [TimePeriod |-> time_period, LineDescription |-> line_description,
   DataValue |-> data_value]

\* a raw data file: found is FALSE when load_raw_json raises FileNotFoundError;
\* buckets is the loaded dict
RawFile(found, buckets) == [found |-> found, buckets |-> buckets]

RawPool ==
  { \* no raw file
    RawFile(FALSE, EmptyDict),
    \* an empty dict
    RawFile(TRUE, EmptyDict),
    \* recent annual and quarterly data
    RawFile(TRUE,
      [annual |-> <<Record(Text("2023"), Text("GDP"), Text("2")),
                    Record(Text("2024"), Text("GDP"), Text("1.5"))>>,
       quarterly |-> <<Record(Text("2024Q1"), Text("GDP"), Text("1,000"))>>,
       monthly |-> <<>>]),
    \* nothing newer than 2023
    RawFile(TRUE,
      [annual |-> <<Record(Text("2023"), Text("GDP"), Text("2"))>>,
       quarterly |-> <<Record(Text("2023Q4"), Text("GDP"), Text("2"))>>]),
    \* a period that is no year, quarter or month
    RawFile(TRUE, [annual |-> <<Record(Text("2024Q5"), Text("GDP"), Text("2"))>>]),
    \* monthly records stored in the annual bucket
    RawFile(TRUE, [annual |-> <<Record(Text("2024M01"), Text("PCE"), Text("2"))>>]),
    \* a line item called "Date", without and with a value
    RawFile(TRUE, [annual |-> <<Record(Text("2024"), Text("Date"), Text("..."))>>]),
    RawFile(TRUE, [annual |-> <<Record(Text("2024"), Text("Date"), Text("2"))>>]) }

\* data.get(bucket, [])
BucketGet(data, bucket) ==
  IF bucket \in DOMAIN data.buckets THEN data.buckets[bucket] ELSE <<>>

RecordPool ==
  << Record(Text("2024"), Text("GDP"), Text("1.5")),
     Record(Text("2023"), Text("PCE"), Text("2")),
     Record(Text("2024"), Text("gdp"), Text("...")),
     Record(Text("2024Q1"), Text("GDP"), Text("1,000")),
     Record(Text("2023Q4"), Text("PCE"), None),
     Record(Text("2024Q5"), Text("GDP"), Text("2")),
     Record(Text("2024M01"), Text("PCE"), Text("1,000")),
     Record(<<>>, Text("GDP"), Text("2")),
     Record(Text("2024"), Text("--"), Text("2")),
     Record(Text("2023"), <<>>, Text("2")),
     Record(Text("2024"), Text("Date"), Text("...")),
     Record(Text("2023"), Text("Date"), Text("2")),
     Record(Text("2024Q1"), Text("Date"), Text("...")) >>

RecordLists ==
  LET picks == UNION {[1..n -> 1..Len(RecordPool)] : n \in 0..MaxRecords}
  IN  {[i \in 1..Len(p) |-> RecordPool[p[i]]] : p \in picks}

(***************************************************************************)
(* State.                                                                  *)
(***************************************************************************)
VARIABLES
  pc,                 \* the position in run (or in the pivot harness)
  catalog,            \* load_nipa_tables()
  suffix_map,         \* table name -> suffix
  idx,                \* the catalog entry the for loop is at (1-based)
  fi,                 \* the frequency the inner loop is at, Frequencies[fi]
  all_records,        \* the concatenated buckets of the current table
  table,              \* the result of transform_table_frequency
  dataset_id,         \* the identifier of the current table
  datasets_created,
  datasets_skipped,
  events,             \* the calls and prints of the run so far, in order
  call,               \* the argument of a function called on its own
  result,             \* what that call returned
  raw_data,           \* pairs in any order: the raw file of each catalog entry
  pairs,              \* pairs in any order: how far each (entry, frequency) is
  published,          \* pairs in any order: what upload_data has stored
  tables,             \* ingest: get_parameter_values('NIPA', 'TableName')
  state,              \* ingest: the persisted state of "nipa_data"
  completed,          \* ingest: the set completed of the run
  pending,            \* ingest: the list pending of the run
  table_data,         \* ingest: the dict data built for the current table
  raw_json            \* ingest: the raw files saved, by name

\* no function is called on its own during a run
NoCall == <<>>

\* the state of the transform with its pairs processed in any order
order_vars == <<raw_data, pairs, published>>

\* the state of the ingest
ingest_vars == <<tables, state, completed, pending, table_data, raw_json>>

vars == <<pc, catalog, suffix_map, idx, fi, all_records, table, dataset_id,
          datasets_created, datasets_skipped, events, call, result,
          order_vars, ingest_vars>>

\* an entry of events
Event(op, table_name, frequency, id, t, created, skipped) ==
  [op |-> op, table_name |-> table_name, frequency |-> frequency,
   dataset_id |-> id, table |-> t, created |-> created, skipped |-> skipped]

\* max(dates) if dates else ''
MaxDate(t) ==
  LET dates == {DateColumn(t)[i][2] : i \in 1..TableLen(t)}
  IN  IF dates = {} THEN <<>>
      ELSE CHOOSE d \in dates : \A e \in dates : StrLeq(e, d)

\* fault variant: a cutoff one year older
OlderCutoff == Text("2023")

\* the cutoff of line 453
RecencyCutoff == Text("2024")

(***************************************************************************)
(* run (nipa_transform.py 407-469), one action per step.                   *)
(***************************************************************************)
Init ==
  /\ pc = "collide"
  /\ catalog \in Catalogs
  /\ suffix_map = [tn \in {} |-> <<>>]
  /\ idx = 0
  /\ fi = 1
  /\ all_records = <<>>
  /\ table = NoTable
  /\ dataset_id = <<>>
  /\ datasets_created = 0
  /\ datasets_skipped = 0
  /\ events = <<>>
  /\ call = NoCall
  /\ result = NoCall
  /\ raw_data = <<>>
  /\ pairs = <<>>
  /\ published = {}
  /\ tables = <<>>
  /\ state = EmptyDict
  /\ completed = {}
  /\ pending = <<>>
  /\ table_data = EmptyDict
  /\ raw_json = EmptyDict

\* fault variant: the suffix map is computed from the first entry alone
CollisionPassFirstEntry ==
  /\ pc = "collide"
  /\ suffix_map' = SuffixMap(IF catalog = <<>> THEN catalog ELSE <<catalog[1]>>)
  /\ idx' = 1
  /\ pc' = "load"
  /\ UNCHANGED <<catalog, fi, all_records, table, dataset_id,
                 datasets_created, datasets_skipped, events,
                 call, result, order_vars, ingest_vars>>

\* lines 412-430: the first pass and the suffix map
CollisionPass ==
  /\ pc = "collide"
  /\ suffix_map' = SuffixMap(catalog)
  /\ idx' = 1
  /\ pc' = "load"
  /\ UNCHANGED <<catalog, fi, all_records, table, dataset_id,
                 datasets_created, datasets_skipped, events,
                 call, result, order_vars, ingest_vars>>

\* fault variant: missing raw data ends the run
LoadMissingAborts ==
  /\ pc = "load"
  /\ idx <= Len(catalog)
  /\ \E data \in RawPool :
       /\ ~data.found \/ DOMAIN data.buckets = {}
       /\ events' = Append(events,
            Event("skip_missing", catalog[idx].TableName, "", <<>>, NoTable,
                  datasets_created, datasets_skipped))
  /\ pc' = "aborted"
  /\ UNCHANGED <<catalog, suffix_map, idx, fi, all_records, table, dataset_id,
                 datasets_created, datasets_skipped,
                 call, result, order_vars, ingest_vars>>

\* lines 436-440: no raw data (None or an empty dict), the entry is skipped
LoadMissing ==
  /\ pc = "load"
  /\ idx <= Len(catalog)
  /\ \E data \in RawPool :
       /\ ~data.found \/ DOMAIN data.buckets = {}
       /\ datasets_skipped' = datasets_skipped + 1
       /\ events' = Append(events,
            Event("skip_missing", catalog[idx].TableName, "", <<>>, NoTable,
                  datasets_created, datasets_skipped + 1))
  /\ idx' = idx + 1
  /\ UNCHANGED <<pc, catalog, suffix_map, fi, all_records, table, dataset_id,
                 datasets_created,
                 call, result, order_vars, ingest_vars>>

\* lines 436-444: the raw data is there, the three buckets are concatenated
LoadTable ==
  /\ pc = "load"
  /\ idx <= Len(catalog)
  /\ \E data \in RawPool :
       /\ data.found /\ DOMAIN data.buckets # {}
       /\ all_records' = BucketGet(data, "annual") \o BucketGet(data, "quarterly")
                           \o BucketGet(data, "monthly")
  /\ fi' = 1
  /\ pc' = "pivot"
  /\ UNCHANGED <<catalog, suffix_map, idx, table, dataset_id,
                 datasets_created, datasets_skipped, events,
                 call, result, order_vars, ingest_vars>>

\* the end of one pass of the frequency loop: the next frequency, or the
\* next catalog entry
NextPair ==
  IF fi < Len(Frequencies)
  THEN fi' = fi + 1 /\ pc' = "pivot" /\ idx' = idx
  ELSE fi' = fi /\ pc' = "load" /\ idx' = idx + 1

\* line 445: the pivot of the current table for the current frequency; a
\* table of kind "raise" is the exception of pa.Table.from_pylist in flight
Pivot ==
  /\ pc = "pivot"
  /\ table' = transform_table_frequency(all_records, Frequencies[fi])
  /\ pc' = "pivoted"
  /\ UNCHANGED <<catalog, suffix_map, idx, fi, all_records, dataset_id,
                 datasets_created, datasets_skipped, events,
                 call, result, order_vars, ingest_vars>>

\* line 445: nothing in run catches the exception
PivotRaised ==
  /\ pc = "pivoted"
  /\ table.kind = "raise"
  /\ pc' = "aborted"
  /\ UNCHANGED <<catalog, suffix_map, idx, fi, all_records, table, dataset_id,
                 datasets_created, datasets_skipped, events,
                 call, result, order_vars, ingest_vars>>

\* lines 447-448: no table for this frequency
PivotNoTable ==
  /\ pc = "pivoted"
  /\ table.kind = "none" \/ (table.kind = "table" /\ TableLen(table) = 0)
  /\ NextPair
  /\ UNCHANGED <<catalog, suffix_map, all_records, table, dataset_id,
                 datasets_created, datasets_skipped, events,
                 call, result, order_vars, ingest_vars>>

\* line 451: table.column('date') raises KeyError when two fields are named date
PivotKeyError ==
  /\ pc = "pivoted"
  /\ table.kind = "table" /\ TableLen(table) > 0
  /\ ~HasOneDateField(table)
  /\ pc' = "aborted"
  /\ UNCHANGED <<catalog, suffix_map, idx, fi, all_records, table, dataset_id,
                 datasets_created, datasets_skipped, events,
                 call, result, order_vars, ingest_vars>>

\* fault variant: a stale table is counted as skipped
PivotStaleCounted ==
  /\ pc = "pivoted"
  /\ table.kind = "table" /\ TableLen(table) > 0
  /\ HasOneDateField(table)
  /\ StrLess(MaxDate(table), RecencyCutoff)
  /\ events' = Append(events,
       Event("skip_stale", catalog[idx].TableName, Frequencies[fi], <<>>, table,
             datasets_created, datasets_skipped + 1))
  /\ datasets_skipped' = datasets_skipped + 1
  /\ NextPair
  /\ UNCHANGED <<catalog, suffix_map, all_records, table, dataset_id,
                 datasets_created,
                 call, result, order_vars, ingest_vars>>

\* lines 450-455: the newest date is before the cutoff
PivotStale ==
  /\ pc = "pivoted"
  /\ table.kind = "table" /\ TableLen(table) > 0
  /\ HasOneDateField(table)
  /\ StrLess(MaxDate(table), RecencyCutoff)
  /\ events' = Append(events,
       Event("skip_stale", catalog[idx].TableName, Frequencies[fi], <<>>, table,
             datasets_created, datasets_skipped))
  /\ NextPair
  /\ UNCHANGED <<catalog, suffix_map, all_records, table, dataset_id,
                 datasets_created, datasets_skipped,
                 call, result, order_vars, ingest_vars>>

\* lines 457-461: the table is recent, its identifier is made
PivotFresh ==
  /\ pc = "pivoted"
  /\ table.kind = "table" /\ TableLen(table) > 0
  /\ HasOneDateField(table)
  /\ ~StrLess(MaxDate(table), RecencyCutoff)
  /\ dataset_id' = make_dataset_id(catalog[idx].TableName, catalog[idx].Description,
                                   Frequencies[fi],
                                   SuffixOf(suffix_map, catalog[idx].TableName))
  /\ pc' = "test"
  /\ UNCHANGED <<catalog, suffix_map, idx, fi, all_records, table,
                 datasets_created, datasets_skipped, events,
                 call, result, order_vars, ingest_vars>>

\* line 463: the validator returns
TestPasses ==
  /\ pc = "test"
  /\ test(table, Frequencies[fi])
  /\ events' = Append(events,
       Event("test_passed", catalog[idx].TableName, Frequencies[fi], dataset_id,
             table, datasets_created, datasets_skipped))
  /\ pc' = "upload"
  /\ UNCHANGED <<catalog, suffix_map, idx, fi, all_records, table, dataset_id,
                 datasets_created, datasets_skipped,
                 call, result, order_vars, ingest_vars>>

\* fault variant: a validator failure is recorded and the table is published
TestRaisesIgnored ==
  /\ pc = "test"
  /\ ~test(table, Frequencies[fi])
  /\ events' = Append(events,
       Event("test_raised", catalog[idx].TableName, Frequencies[fi], dataset_id,
             table, datasets_created, datasets_skipped))
  /\ pc' = "upload"
  /\ UNCHANGED <<catalog, suffix_map, idx, fi, all_records, table, dataset_id,
                 datasets_created, datasets_skipped,
                 call, result, order_vars, ingest_vars>>

\* line 463: the validator raises; nothing in run catches it
TestRaises ==
  /\ pc = "test"
  /\ ~test(table, Frequencies[fi])
  /\ events' = Append(events,
       Event("test_raised", catalog[idx].TableName, Frequencies[fi], dataset_id,
             table, datasets_created, datasets_skipped))
  /\ pc' = "aborted"
  /\ UNCHANGED <<catalog, suffix_map, idx, fi, all_records, table, dataset_id,
                 datasets_created, datasets_skipped,
                 call, result, order_vars, ingest_vars>>

\* lines 465-467: the table is published and counted
Upload ==
  /\ pc = "upload"
  /\ datasets_created' = datasets_created + 1
  /\ events' = Append(events,
       Event("upload", catalog[idx].TableName, Frequencies[fi], dataset_id,
             table, datasets_created + 1, datasets_skipped))
  /\ NextPair
  /\ UNCHANGED <<catalog, suffix_map, all_records, table, dataset_id,
                 datasets_skipped,
                 call, result, order_vars, ingest_vars>>

\* line 465: upload_data raises; nothing in run catches it
UploadRaises ==
  /\ pc = "upload"
  /\ events' = Append(events,
       Event("upload_raised", catalog[idx].TableName, Frequencies[fi], dataset_id,
             table, datasets_created, datasets_skipped))
  /\ pc' = "aborted"
  /\ UNCHANGED <<catalog, suffix_map, idx, fi, all_records, table, dataset_id,
                 datasets_created, datasets_skipped,
                 call, result, order_vars, ingest_vars>>

\* line 469: the catalog loop is over, the counts are printed
Complete ==
  /\ pc = "load"
  /\ idx > Len(catalog)
  /\ events' = Append(events,
       Event("complete", <<>>, "", <<>>, NoTable, datasets_created,
             datasets_skipped))
  /\ pc' = "done"
  /\ UNCHANGED <<catalog, suffix_map, idx, fi, all_records, table, dataset_id,
                 datasets_created, datasets_skipped,
                 call, result, order_vars, ingest_vars>>

Next ==
  \/ CollisionPass
  \/ LoadMissing
  \/ LoadTable
  \/ Pivot
  \/ PivotRaised
  \/ PivotNoTable
  \/ PivotKeyError
  \/ PivotStale
  \/ PivotFresh
  \/ TestPasses
  \/ TestRaises
  \/ Upload
  \/ UploadRaises
  \/ Complete

Spec == Init /\ [][Next]_vars

(***************************************************************************)
(* The loop body of run for one catalog entry, from line 444 on, for       *)
(* every record list of RecordLists as the entry's concatenated buckets.   *)
(***************************************************************************)
InitPivot ==
  /\ pc = "pivot"
  /\ catalog = <<CatalogPool[1]>>
  /\ suffix_map = SuffixMap(catalog)
  /\ idx = 1
  /\ fi = 1
  /\ all_records \in RecordLists
  /\ table = NoTable
  /\ dataset_id = <<>>
  /\ datasets_created = 0
  /\ datasets_skipped = 0
  /\ events = <<>>
  /\ call = NoCall
  /\ result = NoCall
  /\ raw_data = <<>>
  /\ pairs = <<>>
  /\ published = {}
  /\ tables = <<>>
  /\ state = EmptyDict
  /\ completed = {}
  /\ pending = <<>>
  /\ table_data = EmptyDict
  /\ raw_json = EmptyDict

NextPivot ==
  \/ Pivot
  \/ PivotRaised
  \/ PivotNoTable
  \/ PivotKeyError
  \/ PivotStale
  \/ PivotFresh
  \/ TestPasses
  \/ TestRaises
  \/ Upload
  \/ UploadRaises
  \/ Complete

SpecPivot == InitPivot /\ [][NextPivot]_vars

(***************************************************************************)
(* The value parsers called on their own: the argument is drawn from the   *)
(* texts made of a few pieces, or is absent.                               *)
(***************************************************************************)
ValuePieces ==
  << <<49>>, <<48>>, <<44, 50, 51>>, <<52, 46, 53>>,   \* "1" "0" ",23" "4.5"
     <<46>>, <<45>>, <<101>>, <<32>>, <<95>>, <<120>>, \* "." "-" "e" " " "_" "x"
     <<110, 47, 97>>, <<78, 65>>,                      \* "n/a" "NA"
     <<40, 78, 65, 41>>, <<40, 78, 77, 41>>,           \* "(NA)" "(NM)"
     <<46, 46, 46>>, <<45, 45, 45, 45>>,               \* "..." "----"
     <<110, 46, 97, 46>>,                              \* "n.a."
     <<110, 97, 110>>, <<105, 110, 102>> >>            \* "nan" "inf"

RECURSIVE Concat(_, _)
Concat(pieces, p) ==
  IF p = <<>> THEN <<>> ELSE pieces[Head(p)] \o Concat(pieces, Tail(p))

ValueTexts ==
  {Concat(ValuePieces, p) :
     p \in UNION {[1..n -> 1..Len(ValuePieces)] : n \in 0..MaxValuePieces}}

InitValue ==
  /\ pc = "call"
  /\ call \in ValueTexts \cup {None}
  /\ result = NoCall
  /\ raw_data = <<>>
  /\ pairs = <<>>
  /\ published = {}
  /\ tables = <<>>
  /\ state = EmptyDict
  /\ completed = {}
  /\ pending = <<>>
  /\ table_data = EmptyDict
  /\ raw_json = EmptyDict
  /\ catalog = <<>>
  /\ suffix_map = [tn \in {} |-> <<>>]
  /\ idx = 0
  /\ fi = 1
  /\ all_records = <<>>
  /\ table = NoTable
  /\ dataset_id = <<>>
  /\ datasets_created = 0
  /\ datasets_skipped = 0
  /\ events = <<>>

\* what a call leaves alone
RunUnchanged ==
  UNCHANGED <<catalog, suffix_map, idx, fi, all_records, table, dataset_id,
              datasets_created, datasets_skipped, events, call,
              order_vars, ingest_vars>>

ParseValue ==
  /\ pc = "call"
  /\ result' = [fn |-> "parse_value", value |-> parse_value(call)]
  /\ pc' = "returned"
  /\ RunUnchanged

CleanNumericValue ==
  /\ pc = "call"
  /\ result' = [fn |-> "clean_numeric_value", value |-> clean_numeric_value(call)]
  /\ pc' = "returned"
  /\ RunUnchanged

NextValue == ParseValue \/ CleanNumericValue

SpecValue == InitValue /\ [][NextValue]_vars

(***************************************************************************)
(* detect_frequency and normalize_date called on their own: the period     *)
(* token is drawn from the texts made of a few pieces.                     *)
(***************************************************************************)
TokenPieces ==
  << <<50, 48, 50, 51>>, <<81>>, <<77>>,   \* "2023" "Q" "M"
     <<48>>, <<49>>, <<51>>, <<53>>,       \* "0" "1" "3" "5"
     <<10>>, <<120>> >>                    \* "\n" "x"

PeriodTokens ==
  {Concat(TokenPieces, p) :
     p \in UNION {[1..n -> 1..Len(TokenPieces)] : n \in 0..MaxTokenPieces}}

InitPeriod ==
  /\ pc = "call"
  /\ call \in PeriodTokens
  /\ result = NoCall
  /\ raw_data = <<>>
  /\ pairs = <<>>
  /\ published = {}
  /\ tables = <<>>
  /\ state = EmptyDict
  /\ completed = {}
  /\ pending = <<>>
  /\ table_data = EmptyDict
  /\ raw_json = EmptyDict
  /\ catalog = <<>>
  /\ suffix_map = [tn \in {} |-> <<>>]
  /\ idx = 0
  /\ fi = 1
  /\ all_records = <<>>
  /\ table = NoTable
  /\ dataset_id = <<>>
  /\ datasets_created = 0
  /\ datasets_skipped = 0
  /\ events = <<>>

DetectFrequency ==
  /\ pc = "call"
  /\ result' = [fn |-> "detect_frequency", frequency |-> "",
                value |-> detect_frequency(call)]
  /\ pc' = "returned"
  /\ RunUnchanged

NormalizeDate ==
  /\ pc = "call"
  /\ \E f \in 1..Len(Frequencies) :
       result' = [fn |-> "normalize_date", frequency |-> Frequencies[f],
                  value |-> normalize_date(call, Frequencies[f])]
  /\ pc' = "returned"
  /\ RunUnchanged

NextPeriod == DetectFrequency \/ NormalizeDate

SpecPeriod == InitPeriod /\ [][NextPeriod]_vars

(***************************************************************************)
(* extract_semantic_name called on its own: the description is put         *)
(* together from a head, a table number, a separator, a title and a tail,  *)
(* well formed or not, or is a well-formed description around a title made *)
(* of a few phrases.                                                       *)
(***************************************************************************)
\* what stands before the table number
DescriptionHeads ==
  << <<84, 97, 98, 108, 101, 32>>,   \* 'Table '
     <<116, 97, 98, 108, 101, 32>>,   \* 'table '
     <<>>,   \* ''
     <<120, 84, 97, 98, 108, 101, 32>> >>   \* 'xTable '

\* table numbers, with and without a variant letter
TableNumbers ==
  << <<49, 46, 49, 46, 53>>,   \* '1.1.5'
     <<49, 46, 49>>,   \* '1.1'
     <<57, 46, 51>>,   \* '9.3'
     <<49, 46, 49, 53, 65>>,   \* '1.15A'
     <<49, 46, 46, 53>>,   \* '1..5'
     <<49>>,   \* '1'
     <<49, 46, 49, 46, 53, 65, 66>>,   \* '1.1.5AB'
     <<49, 50, 46, 51, 46, 52, 68>>,   \* '12.3.4D'
     <<49, 46, 49, 46, 53, 97>>,   \* '1.1.5a'
     <<49, 46, 49, 46>> >>   \* '1.1.'

\* what stands between the number and the title
NumberSeparators ==
  << <<46, 32>>,   \* '. '
     <<46>>,   \* '.'
     <<32>>,   \* ' '
     <<46, 10>> >>   \* '.\n'

\* what stands after the title
DescriptionTails ==
  << <<32, 40, 65, 41, 32, 40, 81, 41>>,   \* ' (A) (Q)'
     <<32, 40, 77, 41>>,   \* ' (M)'
     <<32, 40, 88, 41>>,   \* ' (X)'
     <<>>,   \* ''
     <<32, 40>>,   \* ' ('
     <<32, 40, 65>> >>   \* ' (A'

\* the phrases titles are made of
TitlePhrases ==
  << <<67, 111, 110, 116, 114, 105, 98, 117, 116, 105, 111, 110, 115, 32, 116, 111, 32, 80, 101, 114, 99, 101, 110, 116, 32, 67, 104, 97, 110, 103, 101, 32, 105, 110, 32, 82, 101, 97, 108>>,   \* 'Contributions to Percent Change in Real'
     <<67, 111, 110, 116, 114, 105, 98, 117, 116, 105, 111, 110, 115, 32, 116, 111, 32, 80, 101, 114, 99, 101, 110, 116, 32, 67, 104, 97, 110, 103, 101, 32, 105, 110>>,   \* 'Contributions to Percent Change in'
     <<67, 111, 110, 116, 114, 105, 98, 117, 116, 105, 111, 110, 115, 32, 116, 111, 32, 80, 101, 114, 99, 101, 110, 116, 32, 67, 104, 97, 110, 103, 101>>,   \* 'Contributions to Percent Change'
     <<80, 101, 114, 99, 101, 110, 116, 32, 67, 104, 97, 110, 103, 101, 32, 70, 114, 111, 109, 32, 81, 117, 97, 114, 116, 101, 114, 32, 79, 110, 101, 32, 89, 101, 97, 114, 32, 65, 103, 111>>,   \* 'Percent Change From Quarter One Year Ago'
     <<80, 101, 114, 99, 101, 110, 116, 32, 67, 104, 97, 110, 103, 101, 32, 70, 114, 111, 109, 32, 80, 114, 101, 99, 101, 100, 105, 110, 103, 32, 80, 101, 114, 105, 111, 100, 32, 105, 110, 32, 80, 114, 105, 99, 101, 115>>,   \* 'Percent Change From Preceding Period in Prices'
     <<80, 101, 114, 99, 101, 110, 116, 32, 67, 104, 97, 110, 103, 101>>,   \* 'Percent Change'
     <<81, 117, 97, 110, 116, 105, 116, 121, 32, 73, 110, 100, 101, 120>>,   \* 'Quantity Index'
     <<80, 114, 105, 99, 101, 32, 73, 110, 100, 101, 120, 101, 115>>,   \* 'Price Indexes'
     <<73, 109, 112, 108, 105, 99, 105, 116, 32, 80, 114, 105, 99, 101, 32, 68, 101, 102, 108, 97, 116, 111, 114>>,   \* 'Implicit Price Deflator'
     <<67, 104, 97, 105, 110, 101, 100, 32, 68, 111, 108, 108, 97, 114, 115>>,   \* 'Chained Dollars'
     <<80, 101, 114, 99, 101, 110, 116, 97, 103, 101, 32, 83, 104, 97, 114, 101, 115>>,   \* 'Percentage Shares'
     <<67, 117, 114, 114, 101, 110, 116, 32, 68, 111, 108, 108, 97, 114, 115>>,   \* 'Current Dollars'
     <<82, 101, 108, 97, 116, 105, 111, 110, 32, 111, 102>>,   \* 'Relation of'
     <<84, 114, 97, 110, 115, 97, 99, 116, 105, 111, 110, 115, 32, 111, 102>>,   \* 'Transactions of'
     <<80, 114, 105, 99, 101>>,   \* 'Price'
     <<71, 114, 111, 115, 115, 32, 68, 111, 109, 101, 115, 116, 105, 99, 32, 80, 114, 111, 100, 117, 99, 116>> >>   \* 'Gross Domestic Product'

\* the phrases picked by p, with one space between them
RECURSIVE JoinPhrases(_)
JoinPhrases(p) ==
  IF p = <<>> THEN <<>>
  ELSE IF Len(p) = 1 THEN TitlePhrases[p[1]]
  ELSE TitlePhrases[Head(p)] \o <<32>> \o JoinPhrases(Tail(p))

TitleTexts ==
  {JoinPhrases(p) :
     p \in UNION {[1..n -> 1..Len(TitlePhrases)] : n \in 0..MaxTitlePieces}}

\* "Table 1.1.5. <title> (A) (Q)"
TitledDescription(title) ==
  DescriptionHeads[1] \o TableNumbers[1] \o NumberSeparators[1] \o title
    \o DescriptionTails[1]

Descriptions ==
  {DescriptionHeads[h] \o TableNumbers[n] \o NumberSeparators[p] \o <<88>>
     \o DescriptionTails[t] :
       h \in 1..Len(DescriptionHeads), n \in 1..Len(TableNumbers),
       p \in 1..Len(NumberSeparators), t \in 1..Len(DescriptionTails)}
  \cup {TitledDescription(title) : title \in TitleTexts}

InitName ==
  /\ pc = "call"
  /\ call \in [table_name : {<<84, 49, 48, 49, 48, 53>>, <<65, 98, 95, 49>>},   \* "T10105" "Ab_1"
               description : Descriptions]
  /\ result = NoCall
  /\ raw_data = <<>>
  /\ pairs = <<>>
  /\ published = {}
  /\ tables = <<>>
  /\ state = EmptyDict
  /\ completed = {}
  /\ pending = <<>>
  /\ table_data = EmptyDict
  /\ raw_json = EmptyDict
  /\ catalog = <<>>
  /\ suffix_map = [tn \in {} |-> <<>>]
  /\ idx = 0
  /\ fi = 1
  /\ all_records = <<>>
  /\ table = NoTable
  /\ dataset_id = <<>>
  /\ datasets_created = 0
  /\ datasets_skipped = 0
  /\ events = <<>>

ExtractSemanticName ==
  /\ pc = "call"
  /\ result' = extract_semantic_name(call.table_name, call.description)
  /\ pc' = "returned"
  /\ RunUnchanged

SpecName == InitName /\ [][ExtractSemanticName]_vars

(***************************************************************************)
(* The collision pass on catalogs whose descriptions differ in the variant *)
(* letter after the table number.                                          *)
(***************************************************************************)
\* "Table <number><variant>. <title> (A) (Q)"
NumberedDescription(number, variant, title) ==
  DescriptionHeads[1] \o number \o variant \o NumberSeparators[1] \o title
    \o DescriptionTails[1]

\* "1.1.5" is in subject_map (as section 1, subsection 1), "9.3" is not
VariantLetters == {<<>>, <<65>>, <<66>>}   \* none, "A", "B"

VariantDescriptions ==
  {NumberedDescription(n, v, TitlePhrases[16]) :
     n \in {TableNumbers[1], TableNumbers[3]}, v \in VariantLetters}

\* the k-th entry has the table name "T<k>"
VariantCatalogs ==
  UNION {{[k \in 1..n |-> Entry(<<84>> \o IntToStr(k), ds[k])] :
            ds \in [1..n -> VariantDescriptions]} : n \in 0..MaxCatalog}

InitVariant ==
  /\ pc = "collide"
  /\ catalog \in VariantCatalogs
  /\ suffix_map = [tn \in {} |-> <<>>]
  /\ idx = 0
  /\ fi = 1
  /\ all_records = <<>>
  /\ table = NoTable
  /\ dataset_id = <<>>
  /\ datasets_created = 0
  /\ datasets_skipped = 0
  /\ events = <<>>
  /\ call = NoCall
  /\ result = NoCall
  /\ raw_data = <<>>
  /\ pairs = <<>>
  /\ published = {}
  /\ tables = <<>>
  /\ state = EmptyDict
  /\ completed = {}
  /\ pending = <<>>
  /\ table_data = EmptyDict
  /\ raw_json = EmptyDict

SpecVariant == InitVariant /\ [][CollisionPass]_vars

(***************************************************************************)
(* The validator called on its own: the table has a date column drawn from *)
(* well-formed and malformed dates, with or without one data column.       *)
(***************************************************************************)
DatePool ==
  << StrCell(<<50, 48, 50, 51>>),                   \* "2023"
     StrCell(<<50, 48, 50, 52>>),                   \* "2024"
     StrCell(<<50, 48, 50, 52, 10>>),               \* "2024\n"
     StrCell(<<50, 48, 50>>),                       \* "202"
     StrCell(<<50, 48, 50, 51, 45, 81, 52>>),       \* "2023-Q4"
     StrCell(<<50, 48, 50, 52, 45, 81, 49>>),       \* "2024-Q1"
     StrCell(<<50, 48, 50, 52, 45, 81, 53>>),       \* "2024-Q5"
     StrCell(<<50, 48, 50, 51, 45, 49, 51>>),       \* "2023-13"
     StrCell(<<50, 48, 50, 52, 45, 48, 49>>),       \* "2024-01"
     Null >>

DateColumns ==
  UNION {{[i \in 1..n |-> DatePool[p[i]]] : p \in [1..n -> 1..Len(DatePool)]} :
           n \in 0..MaxDates}

\* a table with the given date column and data column names; the data cells
\* are null
WideTable(dates, names) ==
  [kind |-> "table", schema |-> <<DateName>> \o names,
   columns |-> <<dates>> \o [k \in 1..Len(names) |-> [i \in 1..Len(dates) |-> Null]]]

WideTables ==
  {WideTable(dates, names) :
     dates \in DateColumns, names \in {<<>>, <<<<103, 100, 112>>>>}}

InitTest ==
  /\ pc = "call"
  /\ call \in [table : WideTables, frequency : Range(Frequencies)]
  /\ result = NoCall
  /\ raw_data = <<>>
  /\ pairs = <<>>
  /\ published = {}
  /\ tables = <<>>
  /\ state = EmptyDict
  /\ completed = {}
  /\ pending = <<>>
  /\ table_data = EmptyDict
  /\ raw_json = EmptyDict
  /\ catalog = <<>>
  /\ suffix_map = [tn \in {} |-> <<>>]
  /\ idx = 0
  /\ fi = 1
  /\ all_records = <<>>
  /\ table = NoTable
  /\ dataset_id = <<>>
  /\ datasets_created = 0
  /\ datasets_skipped = 0
  /\ events = <<>>

TestReturns ==
  /\ pc = "call"
  /\ test(call.table, call.frequency)
  /\ result' = [fn |-> "test", value |-> "returned"]
  /\ pc' = "returned"
  /\ RunUnchanged

TestRaisesError ==
  /\ pc = "call"
  /\ ~test(call.table, call.frequency)
  /\ result' = [fn |-> "test", value |-> "raised"]
  /\ pc' = "returned"
  /\ RunUnchanged

NextTest == TestReturns \/ TestRaisesError

SpecTest == InitTest /\ [][NextTest]_vars

(***************************************************************************)
(* run with the (catalog entry, frequency) pairs of its loops taken in any *)
(* order by up to MaxWorkers workers: every pair goes through the loop     *)
(* body of lines 445-467, the suffix map is computed first, and the raw    *)
(* file of each entry is fixed.  An exception of a pair ends the run, as   *)
(* nothing in run catches it.                                              *)
(***************************************************************************)
OrderRawPool ==
  { \* no raw file
    RawFile(FALSE, EmptyDict),
    \* recent annual and quarterly data
    RawFile(TRUE,
      [annual |-> <<Record(Text("2023"), Text("GDP"), Text("2")),
                    Record(Text("2024"), Text("GDP"), Text("1.5"))>>,
       quarterly |-> <<Record(Text("2024Q1"), Text("GDP"), Text("1,000"))>>,
       monthly |-> <<>>]),
    \* a period that is no year, quarter or month
    RawFile(TRUE, [annual |-> <<Record(Text("2024Q5"), Text("GDP"), Text("2"))>>]) }

InitOrder ==
  /\ pc = "collide"
  /\ \E n \in 1..MaxOrderEntries : catalog = SubSeq(CatalogPool, 1, n)
  /\ suffix_map = [tn \in {} |-> <<>>]
  /\ idx = 0
  /\ fi = 1
  /\ all_records = <<>>
  /\ table = NoTable
  /\ dataset_id = <<>>
  /\ datasets_created = 0
  /\ datasets_skipped = 0
  /\ events = <<>>
  /\ call = NoCall
  /\ result = NoCall
  /\ raw_data \in [1..Len(catalog) -> OrderRawPool]
  /\ pairs = [p \in (1..Len(catalog)) \X (1..Len(Frequencies)) |->
                [stage |-> "unloaded", table |-> NoTable]]
  /\ published = {}
  /\ tables = <<>>
  /\ state = EmptyDict
  /\ completed = {}
  /\ pending = <<>>
  /\ table_data = EmptyDict
  /\ raw_json = EmptyDict

\* lines 436-442 for one entry: without raw data the entry is counted as
\* skipped and none of its pairs is processed; with raw data its pairs wait
OrderLoad ==
  /\ pc = "load"
  /\ \E i \in 1..Len(catalog) :
       /\ pairs[<<i, 1>>].stage = "unloaded"
       /\ IF ~raw_data[i].found \/ DOMAIN raw_data[i].buckets = {}
          THEN /\ datasets_skipped' = datasets_skipped + 1
               /\ pairs' = [p \in DOMAIN pairs |->
                              IF p[1] = i THEN [stage |-> "done", table |-> NoTable]
                              ELSE pairs[p]]
          ELSE /\ datasets_skipped' = datasets_skipped
               /\ pairs' = [p \in DOMAIN pairs |->
                              IF p[1] = i THEN [stage |-> "pending", table |-> NoTable]
                              ELSE pairs[p]]
  /\ UNCHANGED <<pc, catalog, suffix_map, idx, fi, all_records, table,
                 dataset_id, datasets_created, events, call, result,
                 raw_data, published, ingest_vars>>

\* lines 442-455 for one pair: the pivot of the concatenated buckets, the
\* skip of an empty or stale table; an exception ends the run
OrderPivot ==
  /\ pc = "load"
  /\ Cardinality({q \in DOMAIN pairs : pairs[q].stage = "pivoted"}) < MaxWorkers
  /\ \E p \in DOMAIN pairs :
       /\ pairs[p].stage = "pending"
       /\ LET t == transform_table_frequency(
                     BucketGet(raw_data[p[1]], "annual")
                       \o BucketGet(raw_data[p[1]], "quarterly")
                       \o BucketGet(raw_data[p[1]], "monthly"),
                     Frequencies[p[2]])
          IN  IF t.kind = "raise" THEN pc' = "aborted" /\ pairs' = pairs
              ELSE IF t.kind = "none" \/ TableLen(t) = 0
                THEN pc' = pc
                     /\ pairs' = [pairs EXCEPT ![p] = [stage |-> "done", table |-> t]]
              ELSE IF ~HasOneDateField(t) THEN pc' = "aborted" /\ pairs' = pairs
              ELSE IF StrLess(MaxDate(t), RecencyCutoff)
                THEN pc' = pc
                     /\ pairs' = [pairs EXCEPT ![p] = [stage |-> "done", table |-> t]]
              ELSE pc' = pc
                   /\ pairs' = [pairs EXCEPT ![p] = [stage |-> "pivoted", table |-> t]]
  /\ UNCHANGED <<catalog, suffix_map, idx, fi, all_records, table, dataset_id,
                 datasets_created, datasets_skipped, events, call, result,
                 raw_data, published, ingest_vars>>

\* lines 457-467 for one pair: the identifier, the validator, the upload
OrderPublish ==
  /\ pc = "load"
  /\ \E p \in DOMAIN pairs :
       /\ pairs[p].stage = "pivoted"
       /\ IF test(pairs[p].table, Frequencies[p[2]])
          THEN /\ published' = published \cup
                    {[dataset_id |->
                        make_dataset_id(catalog[p[1]].TableName,
                                        catalog[p[1]].Description,
                                        Frequencies[p[2]],
                                        SuffixOf(suffix_map, catalog[p[1]].TableName)),
                      table |-> pairs[p].table]}
               /\ datasets_created' = datasets_created + 1
               /\ pairs' = [pairs EXCEPT ![p].stage = "done"]
               /\ pc' = pc
          ELSE /\ pc' = "aborted"
               /\ UNCHANGED <<published, datasets_created, pairs>>
  /\ UNCHANGED <<catalog, suffix_map, idx, fi, all_records, table, dataset_id,
                 datasets_skipped, events, call, result, raw_data, ingest_vars>>

\* line 469: every pair has been processed
OrderComplete ==
  /\ pc = "load"
  /\ \A p \in DOMAIN pairs : pairs[p].stage = "done"
  /\ pc' = "done"
  /\ UNCHANGED <<catalog, suffix_map, idx, fi, all_records, table, dataset_id,
                 datasets_created, datasets_skipped, events, call, result,
                 order_vars, ingest_vars>>

NextOrder ==
  \/ CollisionPass
  \/ OrderLoad
  \/ OrderPivot
  \/ OrderPublish
  \/ OrderComplete

SpecOrder == InitOrder /\ [][NextOrder]_vars

(***************************************************************************)
(* The incremental ingest: run of src/src/ingest/nipa_data.py with         *)
(* get_data of src/src/utils/bea_client.py, run after run.  state and      *)
(* raw_json are what save_state and save_raw_json have persisted; the      *)
(* other variables of the ingest are the locals of the current run.  pc is *)
(* "idle" between two runs and result tells how the last run ended.  A     *)
(* response is [ok, results]: ok is FALSE when the request or              *)
(* raise_for_status raises, results is the Results object of the answer.   *)
(***************************************************************************)
Responses ==
  { [ok |-> FALSE, results |-> EmptyDict],
    [ok |-> TRUE, results |-> EmptyDict],
    [ok |-> TRUE, results |-> [Error |-> Text("...")]],
    [ok |-> TRUE,
     results |-> [Data |-> <<Record(Text("2024"), Text("GDP"), Text("1.5"))>>]] }

\* get_data (bea_client.py 78-105) on the answer to its request
get_data(response) ==
  IF ~response.ok THEN [kind |-> "raise", value |-> <<>>]
  ELSE IF "Error" \in DOMAIN response.results THEN [kind |-> "raise", value |-> <<>>]
  ELSE [kind |-> "return",
        value |-> IF "Data" \in DOMAIN response.results
                  THEN response.results["Data"] ELSE <<>>]

InitIngest ==
  /\ pc = "idle"
  /\ catalog = <<>>
  /\ suffix_map = [tn \in {} |-> <<>>]
  /\ idx = 0
  /\ fi = 1
  /\ all_records = <<>>
  /\ table = NoTable
  /\ dataset_id = <<>>
  /\ datasets_created = 0
  /\ datasets_skipped = 0
  /\ events = <<>>
  /\ call = NoCall
  /\ result = NoCall
  /\ raw_data = <<>>
  /\ pairs = <<>>
  /\ published = {}
  /\ tables = <<>>
  /\ state = EmptyDict
  /\ completed = {}
  /\ pending = <<>>
  /\ table_data = EmptyDict
  /\ raw_json = EmptyDict

\* the run returns or an exception leaves it: its locals are gone
EndRun(how) ==
  /\ pc' = "idle"
  /\ result' = how
  /\ idx' = 0
  /\ tables' = <<>>
  /\ completed' = {}
  /\ pending' = <<>>
  /\ table_data' = EmptyDict

\* lines 10-11: the catalog of the run, or the request raises.  The catalog
\* has pairwise distinct table identifiers and may differ from one run to the
\* next.
GetTables ==
  /\ pc = "idle"
  /\ \E ok \in BOOLEAN,
        c \in {d \in Catalogs :
                Range(d) \subseteq {CatalogPool[1], CatalogPool[2], CatalogPool[4]}} :
       IF ~ok THEN EndRun("raised")
       ELSE /\ tables' = c
            /\ pc' = "load_state"
            /\ result' = "running"
            /\ UNCHANGED <<idx, completed, pending, table_data>>
  /\ UNCHANGED <<catalog, suffix_map, fi, all_records, table, dataset_id,
                 datasets_created, datasets_skipped, events, call, order_vars,
                 state, raw_json>>

\* fault variant: every table of the catalog is pending
StartRunAllPending ==
  /\ pc = "load_state"
  /\ IF tables = <<>> THEN EndRun("up_to_date")
     ELSE /\ completed' = IF "completed" \in DOMAIN state THEN state["completed"]
                          ELSE {}
          /\ pending' = tables
          /\ pc' = "annual"
          /\ idx' = 1
          /\ UNCHANGED <<result, tables, table_data>>
  /\ UNCHANGED <<catalog, suffix_map, fi, all_records, table, dataset_id,
                 datasets_created, datasets_skipped, events, call, order_vars,
                 state, raw_json>>

\* lines 13-22: the persisted state and the pending tables; the run returns
\* at once when nothing is pending
StartRun ==
  /\ pc = "load_state"
  /\ LET done == IF "completed" \in DOMAIN state THEN state["completed"] ELSE {}
         todo == SelectSeq(tables, LAMBDA t : t.TableName \notin done)
     IN  IF todo = <<>> THEN EndRun("up_to_date")
         ELSE /\ completed' = done
              /\ pending' = todo
              /\ pc' = "annual"
              /\ idx' = 1
              /\ UNCHANGED <<result, tables, table_data>>
  /\ UNCHANGED <<catalog, suffix_map, fi, all_records, table, dataset_id,
                 datasets_created, datasets_skipped, events, call, order_vars,
                 state, raw_json>>

\* line 31: the annual records of the table; an exception ends the run
FetchAnnual ==
  /\ pc = "annual"
  /\ \E response \in Responses :
       IF get_data(response).kind = "raise" THEN EndRun("raised")
       ELSE /\ pc' = "quarterly"
            /\ table_data' = [annual |-> get_data(response).value]
            /\ UNCHANGED <<result, idx, tables, completed, pending>>
  /\ UNCHANGED <<catalog, suffix_map, fi, all_records, table, dataset_id,
                 datasets_created, datasets_skipped, events, call, order_vars,
                 state, raw_json>>

\* lines 28-33: the quarterly records, then the dict data is complete
FetchQuarterly ==
  /\ pc = "quarterly"
  /\ \E response \in Responses :
       IF get_data(response).kind = "raise" THEN EndRun("raised")
       ELSE /\ pc' = "save"
            /\ table_data' = [table_name |-> pending[idx].TableName,
                              description |-> pending[idx].Description,
                              annual |-> table_data["annual"],
                              quarterly |-> get_data(response).value]
            /\ UNCHANGED <<result, idx, tables, completed, pending>>
  /\ UNCHANGED <<catalog, suffix_map, fi, all_records, table, dataset_id,
                 datasets_created, datasets_skipped, events, call, order_vars,
                 state, raw_json>>

\* fault variant: a failure of save_raw_json is passed over
SaveRawFailureIgnored ==
  /\ pc = "save"
  /\ \E ok \in BOOLEAN :
       /\ raw_json' = IF ok THEN DictSet(raw_json, pending[idx].TableName, table_data)
                      ELSE raw_json
       /\ pc' = "save_state"
       /\ UNCHANGED <<result, idx, tables, completed, pending, table_data>>
  /\ UNCHANGED <<catalog, suffix_map, fi, all_records, table, dataset_id,
                 datasets_created, datasets_skipped, events, call, order_vars,
                 state>>

\* line 36: the raw file of the table is written, or save_raw_json raises
SaveRaw ==
  /\ pc = "save"
  /\ \E ok \in BOOLEAN :
       IF ok
       THEN /\ raw_json' = DictSet(raw_json, pending[idx].TableName, table_data)
            /\ pc' = "save_state"
            /\ UNCHANGED <<result, idx, tables, completed, pending, table_data>>
       ELSE EndRun("raised") /\ raw_json' = raw_json
  /\ UNCHANGED <<catalog, suffix_map, fi, all_records, table, dataset_id,
                 datasets_created, datasets_skipped, events, call, order_vars,
                 state>>

\* lines 39-42: the table is added to completed and the state is persisted,
\* or save_state raises; then the next pending table, or the end of the run
SaveState ==
  /\ pc = "save_state"
  /\ \E ok \in BOOLEAN :
       IF ~ok THEN EndRun("raised") /\ state' = state
       ELSE /\ state' = [completed |-> completed \cup {pending[idx].TableName}]
            /\ IF idx < Len(pending)
               THEN /\ completed' = completed \cup {pending[idx].TableName}
                    /\ pc' = "annual"
                    /\ idx' = idx + 1
                    /\ table_data' = table_data
                    /\ UNCHANGED <<result, tables, pending>>
               ELSE EndRun("completed")
  /\ UNCHANGED <<catalog, suffix_map, fi, all_records, table, dataset_id,
                 datasets_created, datasets_skipped, events, call, order_vars,
                 raw_json>>

NextIngest ==
  \/ GetTables
  \/ StartRun
  \/ FetchAnnual
  \/ FetchQuarterly
  \/ SaveRaw
  \/ SaveState

SpecIngest == InitIngest /\ [][NextIngest]_vars

(***************************************************************************)
(* Properties.                                                             *)
(***************************************************************************)
\* the positions of the events of one kind
EventsOf(op) == {k \in 1..Len(events) : events[k].op = op}

Cutoff2024 == <<50, 48, 50, 52>>   \* "2024"

\* C1: in one run over a catalog with pairwise distinct table identifiers, any
\* two calls of upload_data carry different dataset identifiers: no identifier
\* is published for more than one (table identifier, frequency) pair.
C1_DistinctDatasetIds ==
  \A i, j \in EventsOf("upload") :
     events[i].dataset_id = events[j].dataset_id => i = j

\* two tables that share a base key were both published for the same frequency
C1_Witness ==
  \E i, j \in EventsOf("upload") :
     /\ i # j
     /\ events[i].frequency = events[j].frequency
     /\ events[i].table_name \in DOMAIN suffix_map
     /\ events[j].table_name \in DOMAIN suffix_map
     /\ suffix_map[events[i].table_name] # suffix_map[events[j].table_name]

\* the catalog entries that share the base key of entry n
SameKey(n) == {m \in 1..Len(catalog) : BaseKey(catalog[m]) = BaseKey(catalog[n])}

\* the rank of entry n among the entries of its base key, by table identifier
RankInKey(n) ==
  1 + Cardinality({m \in SameKey(n) :
                     StrLess(catalog[m].TableName, catalog[n].TableName)})

\* C2: after the collision pass a table has a suffix if and only if its base
\* key "{subject}_{measurement}" is shared by at least two table identifiers;
\* within such a group of k tables the suffixes are "1".."k", pairwise distinct,
\* in ascending lexicographic order of table identifier, and the suffixes
\* stay as assigned for the rest of the run.
C2_CollisionSuffixes ==
  /\ []((pc = "load" /\ idx = 1) =>
          /\ DOMAIN suffix_map \subseteq
               {catalog[n].TableName : n \in 1..Len(catalog)}
          /\ \A n \in 1..Len(catalog) :
               /\ catalog[n].TableName \in DOMAIN suffix_map
                    <=> Cardinality(SameKey(n)) >= 2
               /\ Cardinality(SameKey(n)) >= 2
                    => suffix_map[catalog[n].TableName] = IntToStr(RankInKey(n)))
  /\ [][pc # "collide" => (suffix_map' = suffix_map /\ catalog' = catalog)]_vars

\* the example of the claim: T10106 comes before T10105 in the catalog, both are
\* "Table 1.1.5. Gross Domestic Product (A) (Q)" with base key gdp_level, and
\* T10105 has suffix "1", T10106 suffix "2"; a third entry has no suffix
C2_Witness ==
  /\ pc # "collide"
  /\ \E m, n, u \in 1..Len(catalog) :
       /\ m < n
       /\ catalog[m] = CatalogPool[2]
       /\ catalog[n] = CatalogPool[1]
       /\ BaseKey(catalog[n]) = <<103, 100, 112, 95, 108, 101, 118, 101, 108>>
       /\ suffix_map[catalog[n].TableName] = <<49>>
       /\ suffix_map[catalog[m].TableName] = <<50>>
       /\ catalog[u].TableName \notin DOMAIN suffix_map

\* C3: every table handed to upload_data has passed the validator for its
\* frequency immediately before, and a table that fails the validator is never
\* published.
C3_ValidatedBeforePublish ==
  /\ \A k \in EventsOf("upload") :
       /\ k > 1
       /\ events[k - 1].op = "test_passed"
       /\ events[k - 1].table_name = events[k].table_name
       /\ events[k - 1].frequency = events[k].frequency
       /\ events[k - 1].table = events[k].table
       /\ test(events[k].table, events[k].frequency)
  /\ \A k \in EventsOf("test_raised") :
       \A u \in EventsOf("upload") :
          ~(/\ events[u].table_name = events[k].table_name
            /\ events[u].frequency = events[k].frequency)
  /\ pc = "upload" =>
       /\ events # <<>>
       /\ events[Len(events)].op = "test_passed"
       /\ events[Len(events)].table = table

\* one table was published, a later one failed the validator and was not
C3_Witness ==
  /\ EventsOf("upload") # {}
  /\ events # <<>>
  /\ events[Len(events)].op = "test_raised"
  /\ ~test(events[Len(events)].table, events[Len(events)].frequency)

\* C4: a validator failure or a publish error for one table/frequency pair
\* never aborts the run: the remaining entries are processed and the counts are
\* reported.  (The code has no handler: the exception leaves run.)
C4_FailureNeverAborts ==
  (EventsOf("test_raised") \cup EventsOf("upload_raised") # {}) => pc # "aborted"

\* a record survives for a frequency: its period classifies to it, its date is
\* not empty and its line description slugifies to a non-empty name
Surviving(frequency) ==
  {i \in 1..Len(all_records) :
     /\ detect_frequency(all_records[i].TimePeriod) = frequency
     /\ normalize_date(all_records[i].TimePeriod, frequency) # <<>>
     /\ slugify(all_records[i].LineDescription) # <<>>}

SurvivingDates(frequency) ==
  {normalize_date(all_records[i].TimePeriod, frequency) : i \in Surviving(frequency)}

SurvivingNames(frequency) ==
  {slugify(all_records[i].LineDescription) : i \in Surviving(frequency)}

\* C5: when the surviving records span D >= 1 dates and C column names, the
\* pivot returns a table with exactly D rows in ascending date order and
\* exactly C columns besides the date, and every (date, column) pair without a
\* surviving record holds null.
C5_PivotShape ==
  (pc = "pivoted" /\ SurvivingDates(Frequencies[fi]) # {}) =>
    /\ table.kind = "table"
    /\ DateColumn(table) =
         [i \in 1..Cardinality(SurvivingDates(Frequencies[fi])) |->
            StrCell(SortedSeq(SurvivingDates(Frequencies[fi]))[i])]
    /\ Len(table.schema) - 1 = Cardinality(SurvivingNames(Frequencies[fi]))
    /\ \A k \in 2..Len(table.schema) : \A i \in 1..TableLen(table) :
         (\A r \in Surviving(Frequencies[fi]) :
            ~(/\ StrCell(normalize_date(all_records[r].TimePeriod, Frequencies[fi]))
                   = DateColumn(table)[i]
              /\ slugify(all_records[r].LineDescription) = table.schema[k]))
         => table.columns[k][i] = Null

\* C6: the date column of every table the pivot returns has no null entry, no
\* duplicate and is in ascending order.
C6_DateColumn ==
  (pc = "pivoted" /\ table.kind = "table") =>
    /\ \A i \in 1..TableLen(table) : IsStrCell(DateColumn(table)[i])
    /\ \A i, j \in 1..TableLen(table) :
         DateColumn(table)[i] = DateColumn(table)[j] => i = j
    /\ \A i \in 1..(TableLen(table) - 1) :
         StrLess(DateColumn(table)[i][2], DateColumn(table)[i + 1][2])

\* the date formats of the claim: four digits; YYYY-Qn, n in 1..4; YYYY-mm
IsYear(d) == Len(d) = 4 /\ \A i \in 1..4 : IsDigit(d[i])

IsQuarter(d) ==
  /\ Len(d) = 7 /\ \A i \in 1..4 : IsDigit(d[i])
  /\ d[5] = 45 /\ d[6] = 81 /\ d[7] \in 49..52

IsMonth(d) ==
  /\ Len(d) = 7 /\ \A i \in 1..4 : IsDigit(d[i])
  /\ d[5] = 45 /\ IsDigit(d[6]) /\ IsDigit(d[7])

\* C7: every row of every table the pivot produces for a frequency has a date
\* string in that frequency's format, whatever the period tokens of the input.
C7_DateFormat ==
  (pc = "pivoted" /\ table.kind = "table") =>
    \A i \in 1..TableLen(table) :
       /\ IsStrCell(DateColumn(table)[i])
       /\ CASE Frequencies[fi] = "annual" -> IsYear(DateColumn(table)[i][2])
            [] Frequencies[fi] = "quarterly" -> IsQuarter(DateColumn(table)[i][2])
            [] Frequencies[fi] = "monthly" -> IsMonth(DateColumn(table)[i][2])

\* C8: run never publishes a table whose greatest date string is below "2024";
\* such a table is skipped, and a table whose newest date is "2024" or later is
\* not skipped by the recency filter.
C8_RecencyFilter ==
  /\ \A k \in EventsOf("upload") :
       ~StrLess(MaxDate(events[k].table), Cutoff2024)
  /\ \A k \in EventsOf("skip_stale") :
       StrLess(MaxDate(events[k].table), Cutoff2024)
  /\ pc \in {"test", "upload"} => ~StrLess(MaxDate(table), Cutoff2024)

\* a table whose newest date is exactly "2024" was published and a table of the
\* same entry whose newest date is older was skipped
C8_Witness ==
  /\ \E k \in EventsOf("upload") : MaxDate(events[k].table) = Cutoff2024
  /\ \E k \in EventsOf("skip_stale") :
       StrLess(MaxDate(events[k].table), Cutoff2024)

\* the step that finds no raw data for the current entry
MissingStep ==
  /\ pc = "load"
  /\ Len(events') = Len(events) + 1
  /\ events'[Len(events')].op = "skip_missing"

\* C9: when the raw data of an entry is missing, run publishes nothing for it,
\* adds one to the skipped count and goes on with the next entry, all else
\* (suffix map, catalog, created count) being as before the entry.
C9_MissingDataSkipped ==
  /\ [](\A k \in EventsOf("skip_missing") :
          /\ \A u \in EventsOf("upload") :
                events[u].table_name # events[k].table_name
          /\ events[k].skipped =
               Cardinality({j \in EventsOf("skip_missing") : j <= k}))
  /\ [][MissingStep =>
          /\ events'[Len(events')].table_name = catalog[idx].TableName
          /\ datasets_skipped' = datasets_skipped + 1
          /\ datasets_created' = datasets_created
          /\ idx' = idx + 1
          /\ pc' = "load"
          /\ catalog' = catalog
          /\ suffix_map' = suffix_map]_vars

\* the first entry had no raw data, a later entry was published and the run
\* completed with one table skipped
C9_Witness ==
  /\ pc = "done"
  /\ events[1].op = "skip_missing"
  /\ events[1].table_name = catalog[1].TableName
  /\ EventsOf("upload") # {}
  /\ datasets_skipped = 1

\* C10: the pivot returns None exactly when no record survives the filters for
\* the frequency; run then raises nothing and goes on with the next frequency
\* (or the next entry), publishing and counting nothing.
C10_NoTableIffNoSurvivor ==
  /\ [](pc = "pivoted" =>
          (table.kind = "none" <=> Surviving(Frequencies[fi]) = {}))
  /\ [][(pc = "pivoted" /\ table.kind = "none") =>
          /\ pc' \in {"pivot", "load"}
          /\ IF fi < 3 THEN fi' = fi + 1 /\ idx' = idx /\ pc' = "pivot"
                       ELSE idx' = idx + 1 /\ pc' = "load"
          /\ events' = events
          /\ datasets_created' = datasets_created
          /\ datasets_skipped' = datasets_skipped]_vars

\* there are records of the frequency, none usable, and the pivot returned None
C10_Witness ==
  /\ pc = "pivoted"
  /\ table.kind = "none"
  /\ \E i \in 1..Len(all_records) :
       detect_frequency(all_records[i].TimePeriod) = Frequencies[fi]
  /\ \E i \in 1..Len(all_records) :
       detect_frequency(all_records[i].TimePeriod) # Frequencies[fi]

\* the distinct column names of the records that survive for the frequency
\* among the first n records, each at the place of its first occurrence
RECURSIVE FirstSeenNames(_, _)
FirstSeenNames(frequency, n) ==
  IF n = 0 THEN <<>>
  ELSE IF /\ n \in Surviving(frequency)
          /\ \A m \in Surviving(frequency) :
               m < n => slugify(all_records[m].LineDescription)
                          # slugify(all_records[n].LineDescription)
       THEN Append(FirstSeenNames(frequency, n - 1),
                   slugify(all_records[n].LineDescription))
       ELSE FirstSeenNames(frequency, n - 1)

\* the names of the fields after the date field
NamesAfterDate(t) == [k \in 1..(Len(t.schema) - 1) |-> t.schema[k + 1]]

\* C11: in every table the pivot returns, the column names besides the date
\* are pairwise distinct and stand in the order in which each slugified name
\* was first seen among the surviving records of the frequency.
C11_ColumnOrder ==
  (pc = "pivoted" /\ table.kind = "table") =>
    /\ NamesAfterDate(table) = FirstSeenNames(Frequencies[fi], Len(all_records))
    /\ \A k, l \in 2..Len(table.schema) :
         table.schema[k] = table.schema[l] => k = l

\* a table with two columns whose first-seen order is not the sorted order and
\* one of whose names occurs in two surviving records
C11_Witness ==
  /\ pc = "pivoted"
  /\ table.kind = "table"
  /\ Len(table.schema) = 3
  /\ StrLess(table.schema[3], table.schema[2])
  /\ \E m, n \in Surviving(Frequencies[fi]) :
       /\ m < n
       /\ all_records[m].LineDescription # all_records[n].LineDescription
       /\ slugify(all_records[m].LineDescription)
            = slugify(all_records[n].LineDescription)

\* the sentinel tokens of the value parser
ValueSentinels ==
  { <<110, 47, 97>>, <<78, 65>>, <<40, 78, 65, 41>>, <<40, 78, 77, 41>>,
    <<46, 46, 46>>, <<45, 45, 45, 45>>, <<110, 46, 97, 46>> }

\* the text without its commas and without the white space around it
RECURSIVE Trimmed(_)
Trimmed(s) ==
  IF s = <<>> THEN s
  ELSE IF IsSpace(Head(s)) THEN Trimmed(Tail(s))
  ELSE IF IsSpace(s[Len(s)]) THEN Trimmed(SubSeq(s, 1, Len(s) - 1))
  ELSE s

IsNoComma(c) == c # 44

Cleaned(s) == Trimmed(SelectSeq(s, IsNoComma))

\* digits, with single underscores between two digits
DigitRun(s) ==
  /\ s # <<>>
  /\ \A i \in 1..Len(s) :
       \/ IsDigit(s[i])
       \/ /\ s[i] = 95 /\ i > 1 /\ i < Len(s)
          /\ IsDigit(s[i - 1]) /\ IsDigit(s[i + 1])

ExponentText(ex) ==
  /\ ex[1] \in {69, 101}
  /\ DigitRun(IF Len(ex) >= 2 /\ ex[2] \in {43, 45}
              THEN SubSeq(ex, 3, Len(ex)) ELSE Tail(ex))

\* an unsigned decimal literal: integer part, fraction, exponent
DecimalText(b) ==
  \E i \in 0..Len(b) : \E j \in i..Len(b) :
     /\ i = 0 \/ DigitRun(SubSeq(b, 1, i))
     /\ j = i \/ /\ b[i + 1] = 46
                 /\ j = i + 1 \/ DigitRun(SubSeq(b, i + 2, j))
     /\ i > 0 \/ j > i + 1
     /\ j = Len(b) \/ ExponentText(SubSeq(b, j + 1, Len(b)))

\* a text that float() reads as a number: an optional sign and a decimal
\* literal, or the words inf, infinity and nan in any case
NumericText(t) ==
  \/ DecimalText(IF t # <<>> /\ Head(t) \in {43, 45} THEN Tail(t) ELSE t)
  \/ Lower(IF t # <<>> /\ Head(t) \in {43, 45} THEN Tail(t) ELSE t)
       \in { <<105, 110, 102>>, <<105, 110, 102, 105, 110, 105, 116, 121>>,
             <<110, 97, 110>> }

\* digits and thousands separators, then possibly a point and digits
CommaNumber(s, d) ==
  /\ \A i \in 1..(d - 1) : IsDigit(s[i]) \/ s[i] = 44
  /\ \E i \in 1..(d - 1) : IsDigit(s[i])
  /\ d <= Len(s) => s[d] = 46 /\ d < Len(s)
  /\ \A i \in (d + 1)..Len(s) : IsDigit(s[i])

RECURSIVE NumberOf(_)
NumberOf(digits) ==
  IF digits = <<>> THEN 0
  ELSE 10 * NumberOf(SubSeq(digits, 1, Len(digits) - 1))
         + (digits[Len(digits)] - 48)

RECURSIVE Pow10(_)
Pow10(n) == IF n = 0 THEN 1 ELSE 10 * Pow10(n - 1)

\* the float cell v is the number of the text s whose point is at d
IsNumberOf(v, s, d) ==
  /\ IsFloatCell(v)
  /\ Len(v) = 3
  /\ v[3] + (Len(s) + 1 - d) >= 0 \/ d > Len(s)
  /\ v[2] * Pow10(v[3] + (IF d > Len(s) THEN 0 ELSE Len(s) - d))
       = NumberOf(SelectSeq(s, IsDigit))

\* C12: the value parser is total: it returns null for an absent, empty or
\* blank value and for each of the sentinel tokens n/a, NA, (NA), (NM), ...,
\* ----, n.a.; for a number written with thousands separators it returns the
\* number without the commas; for every other text that is not numeric once
\* the commas are removed it returns null.  It returns for every argument.
C12_ValueParserTotal ==
  pc = "returned" =>
    /\ result.value = Null \/ IsFloatCell(result.value)
    /\ call = None => result.value = Null
    /\ (call # None /\ \A i \in 1..Len(call) : IsSpace(call[i]))
         => result.value = Null
    /\ call \in ValueSentinels => result.value = Null
    /\ call # None =>
         /\ \A d \in 1..(Len(call) + 1) :
              CommaNumber(call, d) => IsNumberOf(result.value, call, d)
         /\ NumericText(Cleaned(call)) <=> IsFloatCell(result.value)

\* parse_value("1,234.5") returned 1234.5
C12_Witness ==
  /\ pc = "returned"
  /\ result.fn = "parse_value"
  /\ call = <<49, 44, 50, 51, 52, 46, 53>>
  /\ result.value = <<"float", 12345, -1>>

\* four digits, 'Q', a digit 1-4
IsQuarterToken(t) ==
  /\ Len(t) = 6
  /\ \A i \in 1..4 : IsDigit(t[i])
  /\ t[5] = 81
  /\ t[6] \in 49..52

\* four digits, 'M', two digits
IsMonthToken(t) ==
  /\ Len(t) = 7
  /\ \A i \in 1..4 : IsDigit(t[i])
  /\ t[5] = 77
  /\ IsDigit(t[6]) /\ IsDigit(t[7])

\* C13: detect_frequency returns quarterly exactly for the tokens made of four
\* digits, 'Q' and a digit 1-4, monthly exactly for the tokens made of four
\* digits, 'M' and two digits, and annual for every other token.
C13_DetectFrequencyExact ==
  (pc = "returned" /\ result.fn = "detect_frequency") =>
    result.value = IF IsQuarterToken(call) THEN "quarterly"
                   ELSE IF IsMonthToken(call) THEN "monthly"
                   ELSE "annual"

\* C14: normalize_date rewrites YYYYQn to YYYY-Qn for the quarterly target and
\* YYYYMmm to YYYY-mm for the monthly target; for the annual target, and for a
\* token that is not of the form of the target, it returns the token as it is.
C14_NormalizeDate ==
  (pc = "returned" /\ result.fn = "normalize_date") =>
    result.value =
      IF result.frequency = "quarterly" /\ IsQuarterToken(call)
        THEN SubSeq(call, 1, 4) \o <<45, 81>> \o SubSeq(call, 6, 6)
      ELSE IF result.frequency = "monthly" /\ IsMonthToken(call)
        THEN SubSeq(call, 1, 4) \o <<45>> \o SubSeq(call, 6, 7)
      ELSE call

\* C15: the six-digit period "202303" is classified as monthly and rewritten
\* to "2023-03" for the monthly target.
C15_SixDigitMonth ==
  (pc = "returned" /\ call = <<50, 48, 50, 51, 48, 51>>) =>
    /\ result.fn = "detect_frequency" => result.value = "monthly"
    /\ (result.fn = "normalize_date" /\ result.frequency = "monthly")
         => result.value = <<50, 48, 50, 51, 45, 48, 51>>

\* the text d has a digit at each place from a to b, and a <= b
DigitsAt(d, a, b) == a <= b /\ \A i \in a..b : IsDigit(d[i])

\* from place q there is: optionally a point, digits or none, optionally a
\* capital letter; then ". " at place p
NumberTailAt(d, q, p) ==
  \E a \in {q, q + 1} : \E b \in {p - 1, p} :
     /\ a = q + 1 => d[q] = 46
     /\ b = p - 1 => IsUpper(d[b])
     /\ a <= b
     /\ \A i \in a..(b - 1) : IsDigit(d[i])
     /\ d[p] = 46 /\ p + 1 <= Len(d) /\ d[p + 1] = 32

\* a title of at least one character, none of them a newline, from place t up
\* to a " (" that is followed by A, Q or M
TitleAt(d, t) ==
  \E u \in (t + 1)..(Len(d) - 2) :
     /\ \A i \in t..(u - 1) : d[i] # 10
     /\ d[u] = 32 /\ d[u + 1] = 40 /\ d[u + 2] \in {65, 81, 77}

\* the description contains
\*   Table <section>.<subsection>[.<sub2>][<variant>]. <title> (<A|Q|M>
HasTablePattern(d) ==
  \E s \in 1..Len(d) :
     /\ s + 5 <= Len(d)
     /\ SubSeq(d, s, s + 5) = <<84, 97, 98, 108, 101, 32>>
     /\ \E e1 \in (s + 6)..Len(d) :
          /\ DigitsAt(d, s + 6, e1)
          /\ e1 + 1 <= Len(d) /\ d[e1 + 1] = 46
          /\ \E e2 \in (e1 + 2)..Len(d) :
               /\ DigitsAt(d, e1 + 2, e2)
               /\ \E p \in (e2 + 1)..Len(d) :
                    NumberTailAt(d, e2 + 1, p) /\ TitleAt(d, p + 2)

\* C16: for a description that does not contain the table pattern,
\* extract_semantic_name returns the lowercased table identifier and "data";
\* it returns for every argument, and returns "data" in this case only.
C16_FallbackName ==
  pc = "returned" =>
    /\ ~HasTablePattern(call.description) =>
         result = [subject |-> Lower(call.table_name),
                   measurement |-> <<100, 97, 116, 97>>]
    /\ result.measurement = <<100, 97, 116, 97>>
         => ~HasTablePattern(call.description)

\* the pattern is nearly there, a mixed-case table name comes back lowercased
C16_Witness ==
  /\ pc = "returned"
  /\ call.table_name = <<65, 98, 95, 49>>
  /\ call.description =
       <<84, 97, 98, 108, 101, 32, 49, 46, 49, 46, 53, 46, 32, 88, 32, 40, 88, 41>>
  /\ result = [subject |-> <<97, 98, 95, 49>>, measurement |-> <<100, 97, 116, 97>>]

\* the phrase rules in their order: the phrases that must all occur in the
\* lowercased title, and the label
PhraseRules ==
  <<
    \* 'contributions to percent change in real' -> contributions_real
    << {<<99, 111, 110, 116, 114, 105, 98, 117, 116, 105, 111, 110, 115, 32, 116, 111, 32, 112, 101, 114, 99, 101, 110, 116, 32, 99, 104, 97, 110, 103, 101, 32, 105, 110, 32, 114, 101, 97, 108>>},
       <<99, 111, 110, 116, 114, 105, 98, 117, 116, 105, 111, 110, 115, 95, 114, 101, 97, 108>> >>,
    \* 'contributions to percent change in' and 'price' -> contributions_price
    << {<<99, 111, 110, 116, 114, 105, 98, 117, 116, 105, 111, 110, 115, 32, 116, 111, 32, 112, 101, 114, 99, 101, 110, 116, 32, 99, 104, 97, 110, 103, 101, 32, 105, 110>>,
         <<112, 114, 105, 99, 101>>},
       <<99, 111, 110, 116, 114, 105, 98, 117, 116, 105, 111, 110, 115, 95, 112, 114, 105, 99, 101>> >>,
    \* 'contributions to percent change' -> contributions
    << {<<99, 111, 110, 116, 114, 105, 98, 117, 116, 105, 111, 110, 115, 32, 116, 111, 32, 112, 101, 114, 99, 101, 110, 116, 32, 99, 104, 97, 110, 103, 101>>},
       <<99, 111, 110, 116, 114, 105, 98, 117, 116, 105, 111, 110, 115>> >>,
    \* 'percent change from quarter one year ago' -> percent_change_yoy
    << {<<112, 101, 114, 99, 101, 110, 116, 32, 99, 104, 97, 110, 103, 101, 32, 102, 114, 111, 109, 32, 113, 117, 97, 114, 116, 101, 114, 32, 111, 110, 101, 32, 121, 101, 97, 114, 32, 97, 103, 111>>},
       <<112, 101, 114, 99, 101, 110, 116, 95, 99, 104, 97, 110, 103, 101, 95, 121, 111, 121>> >>,
    \* 'percent change from preceding period in prices' -> price_percent_change
    << {<<112, 101, 114, 99, 101, 110, 116, 32, 99, 104, 97, 110, 103, 101, 32, 102, 114, 111, 109, 32, 112, 114, 101, 99, 101, 100, 105, 110, 103, 32, 112, 101, 114, 105, 111, 100, 32, 105, 110, 32, 112, 114, 105, 99, 101, 115>>},
       <<112, 114, 105, 99, 101, 95, 112, 101, 114, 99, 101, 110, 116, 95, 99, 104, 97, 110, 103, 101>> >>,
    \* 'percent change' -> percent_change
    << {<<112, 101, 114, 99, 101, 110, 116, 32, 99, 104, 97, 110, 103, 101>>},
       <<112, 101, 114, 99, 101, 110, 116, 95, 99, 104, 97, 110, 103, 101>> >>,
    \* 'quantity index' -> quantity_index
    << {<<113, 117, 97, 110, 116, 105, 116, 121, 32, 105, 110, 100, 101, 120>>},
       <<113, 117, 97, 110, 116, 105, 116, 121, 95, 105, 110, 100, 101, 120>> >>,
    \* 'price index' -> price_index
    << {<<112, 114, 105, 99, 101, 32, 105, 110, 100, 101, 120>>},
       <<112, 114, 105, 99, 101, 95, 105, 110, 100, 101, 120>> >>,
    \* 'implicit price deflator' -> deflator
    << {<<105, 109, 112, 108, 105, 99, 105, 116, 32, 112, 114, 105, 99, 101, 32, 100, 101, 102, 108, 97, 116, 111, 114>>},
       <<100, 101, 102, 108, 97, 116, 111, 114>> >>,
    \* 'chained dollars' -> chained_dollars
    << {<<99, 104, 97, 105, 110, 101, 100, 32, 100, 111, 108, 108, 97, 114, 115>>},
       <<99, 104, 97, 105, 110, 101, 100, 95, 100, 111, 108, 108, 97, 114, 115>> >>,
    \* 'percentage shares' -> shares
    << {<<112, 101, 114, 99, 101, 110, 116, 97, 103, 101, 32, 115, 104, 97, 114, 101, 115>>},
       <<115, 104, 97, 114, 101, 115>> >>,
    \* 'current dollars' -> current_dollars
    << {<<99, 117, 114, 114, 101, 110, 116, 32, 100, 111, 108, 108, 97, 114, 115>>},
       <<99, 117, 114, 114, 101, 110, 116, 95, 100, 111, 108, 108, 97, 114, 115>> >>,
    \* 'relation of' -> relation
    << {<<114, 101, 108, 97, 116, 105, 111, 110, 32, 111, 102>>},
       <<114, 101, 108, 97, 116, 105, 111, 110>> >>,
    \* 'transactions of' -> transactions
    << {<<116, 114, 97, 110, 115, 97, 99, 116, 105, 111, 110, 115, 32, 111, 102>>},
       <<116, 114, 97, 110, 115, 97, 99, 116, 105, 111, 110, 115>> >>
  >>

LevelLabel == <<108, 101, 118, 101, 108>>   \* "level"

MeasurementLabels ==
  {PhraseRules[k][2] : k \in 1..Len(PhraseRules)} \cup {LevelLabel}

\* the phrase occurs in the text
Occurs(phrase, text) ==
  \E i \in 1..(Len(text) - Len(phrase) + 1) :
     SubSeq(text, i, i + Len(phrase) - 1) = phrase

\* the rules of which every phrase occurs in the text
RulesFor(text) ==
  {k \in 1..Len(PhraseRules) : \A ph \in PhraseRules[k][1] : Occurs(ph, text)}

\* the label of the first rule among ks, "level" when there is none
FirstLabel(ks) ==
  IF ks = {} THEN LevelLabel
  ELSE PhraseRules[CHOOSE k \in ks : \A l \in ks : k <= l][2]

\* the description is "Table 1.1.5. <title> (A) (Q)" with a title
IsTitled(d) ==
  /\ Len(d) > 21
  /\ SubSeq(d, 1, 13) = <<84, 97, 98, 108, 101, 32, 49, 46, 49, 46, 53, 46, 32>>
  /\ SubSeq(d, Len(d) - 7, Len(d)) = <<32, 40, 65, 41, 32, 40, 81, 41>>

TitleOf(d) == SubSeq(d, 14, Len(d) - 8)

\* C17: for a description that matches the table pattern the measurement is
\* the label of the first phrase rule, in the fixed order, whose phrases occur
\* in the lowercased title, and level when none does; a title containing
\* "contributions to percent change in real" gives contributions_real, not
\* percent_change; the measurement is always one of the 15 labels.
C17_MeasurementRule ==
  pc = "returned" =>
    /\ HasTablePattern(call.description)
         => result.measurement \in MeasurementLabels
    /\ IsTitled(call.description) =>
         /\ result.measurement
              = FirstLabel(RulesFor(Lower(TitleOf(call.description))))
         /\ Occurs(<<99, 111, 110, 116, 114, 105, 98, 117, 116, 105, 111, 110, 115, 32, 116, 111, 32, 112, 101, 114, 99, 101, 110, 116, 32, 99, 104, 97, 110, 103, 101, 32, 105, 110, 32, 114, 101, 97, 108>>,
                   Lower(TitleOf(call.description)))
              => result.measurement = PhraseRules[1][2]

\* the title "Percent Change Contributions to Percent Change in Real" has the
\* phrases of several rules; the first rule gives contributions_real
C17_Witness ==
  /\ pc = "returned"
  /\ call.description = TitledDescription(JoinPhrases(<<6, 1>>))
  /\ Cardinality(RulesFor(Lower(TitleOf(call.description)))) >= 3
  /\ result.measurement = <<99, 111, 110, 116, 114, 105, 98, 117, 116, 105, 111, 110, 115, 95, 114, 101, 97, 108>>

\* the name got with the variant letter v is the name got without it, with
\* '_' and the lowercased letter after the subject
VariantAppended(with, without, v) ==
  /\ with.subject = without.subject \o <<95, v[1] + 32>>
  /\ with.measurement = without.measurement

\* the two descriptions differ in the variant letter only
DiffersOnlyInVariant(d1, d2) ==
  \E n \in {TableNumbers[1], TableNumbers[3]} : \E v1, v2 \in VariantLetters :
     /\ v1 # v2
     /\ d1 = NumberedDescription(n, v1, TitlePhrases[16])
     /\ d2 = NumberedDescription(n, v2, TitlePhrases[16])

\* C18: a variant letter after the table number is appended, lowercased and
\* after '_', to the subject, whether the subject comes from the lookup table
\* or from the section name; so two catalog entries that differ only in the
\* variant letter have different base keys and the collision pass does not
\* treat them as colliding.
C18_VariantSuffix ==
  pc = "load" =>
    \A n \in 1..Len(catalog) :
       /\ \A num \in {TableNumbers[1], TableNumbers[3]} : \A v \in VariantLetters \ {<<>>} :
            catalog[n].Description
                = NumberedDescription(num, v, TitlePhrases[16])
            => VariantAppended(
                 extract_semantic_name(catalog[n].TableName,
                                       catalog[n].Description),
                 extract_semantic_name(catalog[n].TableName,
                   NumberedDescription(num, <<>>, TitlePhrases[16])),
                 v)
       /\ \A m \in 1..Len(catalog) :
            DiffersOnlyInVariant(catalog[m].Description, catalog[n].Description)
            => BaseKey(catalog[m]) # BaseKey(catalog[n])
       /\ (\A m \in 1..Len(catalog) \ {n} :
             DiffersOnlyInVariant(catalog[m].Description,
                                  catalog[n].Description))
            => catalog[n].TableName \notin DOMAIN suffix_map

\* 1.1.5, 1.1.5A and 1.1.5B stand in one catalog: the base keys are gdp_level,
\* gdp_a_level and gdp_b_level and no table has a suffix; with the number 9.3
\* the section-name subject carries the letter, s9_3_b
C18_Witness ==
  /\ pc = "load"
  /\ Len(catalog) = 3
  /\ catalog[1].Description
       = NumberedDescription(TableNumbers[1], <<>>, TitlePhrases[16])
  /\ catalog[2].Description
       = NumberedDescription(TableNumbers[1], <<65>>, TitlePhrases[16])
  /\ catalog[3].Description
       = NumberedDescription(TableNumbers[1], <<66>>, TitlePhrases[16])
  /\ BaseKey(catalog[2]) = <<103, 100, 112, 95, 97, 95, 108, 101, 118, 101, 108>>
  /\ BaseKey(Entry(<<84, 52>>,
                   NumberedDescription(TableNumbers[3], <<66>>, TitlePhrases[16])))
       = <<115, 57, 95, 51, 95, 98, 95, 108, 101, 118, 101, 108>>
  /\ DOMAIN suffix_map = {}

\* the validator returned for the table of the call
Accepted == pc = "returned" /\ result.fn = "test" /\ result.value = "returned"

\* C19: the validator accepts a table for a frequency only if every date is a
\* string in the format of the frequency (four digits; YYYY-Qn with n in 1..4;
\* YYYY-dd), the dates are in ascending order and there is at least one column
\* besides the date; otherwise it raises, and the table is left as it is.
C19_ValidatorChecks ==
  /\ pc = "returned" /\ result.fn = "test"
       => result.value \in {"returned", "raised"}
  /\ Accepted =>
       /\ \A i \in 1..TableLen(call.table) :
            /\ IsStrCell(DateColumn(call.table)[i])
            /\ CASE call.frequency = "annual"
                      -> IsYear(DateColumn(call.table)[i][2])
                 [] call.frequency = "quarterly"
                      -> IsQuarter(DateColumn(call.table)[i][2])
                 [] call.frequency = "monthly"
                      -> IsMonth(DateColumn(call.table)[i][2])
       /\ \A i \in 1..(TableLen(call.table) - 1) :
            StrLeq(DateColumn(call.table)[i][2], DateColumn(call.table)[i + 1][2])
       /\ \E k \in 1..Len(call.table.schema) : call.table.schema[k] # DateName

\* C20: for the monthly frequency the validator rejects a table whose date
\* column contains "2023-13".
C20_RejectsMonth13 ==
  (/\ pc = "returned" /\ result.fn = "test"
   /\ call.frequency = "monthly"
   /\ \E i \in 1..TableLen(call.table) :
        DateColumn(call.table)[i] = StrCell(<<50, 48, 50, 51, 45, 49, 51>>))
  => result.value = "raised"


\* what the loop body of run does for the entry i and the frequency
\* Frequencies[f], given the raw file of the entry: it raises, it skips the
\* pair, or it publishes an identifier with a table
PairOutcome(i, f) ==
  LET t == transform_table_frequency(
             BucketGet(raw_data[i], "annual") \o BucketGet(raw_data[i], "quarterly")
               \o BucketGet(raw_data[i], "monthly"),
             Frequencies[f])
  IN  IF ~raw_data[i].found \/ DOMAIN raw_data[i].buckets = {}
        THEN [kind |-> "skip"]
      ELSE IF t.kind = "raise" THEN [kind |-> "raise"]
      ELSE IF t.kind = "none" \/ TableLen(t) = 0 THEN [kind |-> "skip"]
      ELSE IF ~HasOneDateField(t) THEN [kind |-> "raise"]
      ELSE IF StrLess(MaxDate(t), Cutoff2024) THEN [kind |-> "skip"]
      ELSE IF ~test(t, Frequencies[f]) THEN [kind |-> "raise"]
      ELSE [kind |-> "publish",
            item |-> [dataset_id |->
                        make_dataset_id(catalog[i].TableName, catalog[i].Description,
                                        Frequencies[f],
                                        SuffixOf(SuffixMap(catalog),
                                                 catalog[i].TableName)),
                      table |-> t]]

\* what run publishes when it takes the pairs in the order of its two loops,
\* from the k-th pair on
RECURSIVE LoopOrderPublished(_, _)
LoopOrderPublished(k, acc) ==
  IF k > Len(catalog) * Len(Frequencies) THEN acc
  ELSE LET o == PairOutcome(((k - 1) \div Len(Frequencies)) + 1,
                            ((k - 1) % Len(Frequencies)) + 1)
       IN  IF o.kind = "raise" THEN acc
           ELSE IF o.kind = "publish"
             THEN LoopOrderPublished(k + 1, acc \cup {o.item})
           ELSE LoopOrderPublished(k + 1, acc)

\* C21: with the suffix map computed first, a run that takes the (catalog
\* entry, frequency) pairs in any order, interleaved across workers, has
\* published, when it ends, the same set of (dataset identifier, table) pairs
\* as the run that takes them in the order of the two loops.
C21_OrderIndependent ==
  pc \in {"done", "aborted"} => published = LoopOrderPublished(1, {})

\* C22: run computes the suffix map exactly once, from the whole catalog,
\* before any raw data is loaded and before any pivot or publish: nothing has
\* been loaded, pivoted, printed or published while the map is still to be
\* computed, the one step that computes it is never taken again, and no later
\* step of the loop over the catalog changes the map.
C22_SuffixMapOnceUpfront ==
  /\ [](pc = "collide" =>
          /\ events = <<>> /\ all_records = <<>> /\ table = NoTable
          /\ datasets_created = 0 /\ datasets_skipped = 0)
  /\ [][pc = "collide" => pc' # "collide" /\ suffix_map' = SuffixMap(catalog)]_vars
  /\ [][pc # "collide" => pc' # "collide" /\ suffix_map' = suffix_map]_vars

C22_Witness ==
  /\ pc = "done"
  /\ Len(catalog) = 3
  /\ DOMAIN suffix_map # {}
  /\ Cardinality(EventsOf("upload")) >= 2
  /\ EventsOf("skip_missing") # {}

\* C23: at every point of run, and so when it completes and prints the
\* summary, datasets_created is the number of upload_data calls made so far and
\* datasets_skipped is the number of catalog entries for which no raw data was
\* found; the summary reports these two numbers; a step that leaves a frequency
\* because the pivot gave no table or because the table is stale changes
\* neither counter.
C23_Counters ==
  /\ [](/\ datasets_created = Cardinality(EventsOf("upload"))
        /\ datasets_skipped = Cardinality(EventsOf("skip_missing"))
        /\ pc = "done" =>
             /\ events[Len(events)].op = "complete"
             /\ events[Len(events)].created = datasets_created
             /\ events[Len(events)].skipped = datasets_skipped)
  /\ [][(pc = "pivoted" /\ pc' \in {"pivot", "load"}) =>
          /\ datasets_created' = datasets_created
          /\ datasets_skipped' = datasets_skipped]_vars

C23_Witness ==
  /\ pc = "done"
  /\ datasets_created = 1
  /\ datasets_skipped = 1
  /\ Cardinality(EventsOf("skip_stale")) = 2

\* the surviving records m and n fall into the same cell: the same normalized
\* date and the same slugified column name
SameCell(m, n, frequency) ==
  /\ normalize_date(all_records[m].TimePeriod, frequency)
       = normalize_date(all_records[n].TimePeriod, frequency)
  /\ slugify(all_records[m].LineDescription) = slugify(all_records[n].LineDescription)

\* the last surviving record, in input order, of the cell of record m
LastOfCell(m, frequency) ==
  CHOOSE n \in Surviving(frequency) :
    /\ SameCell(m, n, frequency)
    /\ \A l \in Surviving(frequency) : SameCell(m, l, frequency) => l <= n

\* C24: when two or more surviving records share the normalized date and the
\* slugified column name, the pivot returns a table (no error) with one column
\* of that name and one row of that date, and the cell there is the parsed
\* value of the last of these records in input order, null included.
C24_LastWriteWins ==
  pc = "pivoted" =>
    \A m, n \in Surviving(Frequencies[fi]) :
      (m < n /\ SameCell(m, n, Frequencies[fi])) =>
        /\ table.kind = "table"
        /\ Cardinality({k \in 2..Len(table.schema) :
             table.schema[k] = slugify(all_records[m].LineDescription)}) = 1
        /\ Cardinality({i \in 1..TableLen(table) :
             DateColumn(table)[i] =
               StrCell(normalize_date(all_records[m].TimePeriod, Frequencies[fi]))}) = 1
        /\ \A k \in 2..Len(table.schema) : \A i \in 1..TableLen(table) :
             (/\ table.schema[k] = slugify(all_records[m].LineDescription)
              /\ DateColumn(table)[i] =
                   StrCell(normalize_date(all_records[m].TimePeriod, Frequencies[fi])))
             => table.columns[k][i] =
                  parse_value(all_records[LastOfCell(m, Frequencies[fi])].DataValue)

\* C25: every date of a table the pivot returns for the quarterly or the
\* monthly frequency is a string that matches the validator's date pattern of
\* that frequency.
C25_SubannualDatesValid ==
  (pc = "pivoted" /\ Frequencies[fi] \in {"quarterly", "monthly"}
     /\ table.kind = "table") =>
    \A i \in 1..TableLen(table) :
      /\ IsStrCell(DateColumn(table)[i])
      /\ DateFormatOk(DateColumn(table)[i][2], Frequencies[fi])

\* C26: every table the pivot returns has at least one row and at least one
\* column besides the date, and the date of every row is a non-empty string.
C26_NonEmptyTable ==
  (pc = "pivoted" /\ table.kind = "table") =>
    /\ TableLen(table) >= 1
    /\ Len(DataColumns(table)) >= 1
    /\ \A i \in 1..TableLen(table) :
         /\ IsStrCell(DateColumn(table)[i])
         /\ DateColumn(table)[i][2] # <<>>

\* the record r yields a cell of the table of the frequency: pivoted alone it
\* gives more than Python's None
Contributes(r, frequency) ==
  transform_table_frequency(<<r>>, frequency).kind # "none"

\* the records whose period token has the form of the frequency
OfFrequency(records, frequency) ==
  SelectSeq(records, LAMBDA r : detect_frequency(r.TimePeriod) = frequency)

\* C27 as stated: a record of the concatenated buckets contributes to the
\* table of a frequency if and only if detect_frequency of its period token is
\* that frequency.
C27_ContributesIffDetected ==
  pc = "pivoted" =>
    \A i \in 1..Len(all_records) : \A g \in 1..Len(Frequencies) :
      Contributes(all_records[i], Frequencies[g])
        <=> detect_frequency(all_records[i].TimePeriod) = Frequencies[g]

\* C27, amended: the table of a frequency is the pivot of exactly the records
\* whose period token detect_frequency gives that frequency, wherever they
\* stand in the concatenated buckets; a record contributes to the table of a
\* frequency if and only if detect_frequency of its period token is that
\* frequency and its normalized date, its line description and its slugified
\* column name are not empty; so every record contributes to at most one of
\* the three tables.
C27_ByDetectedFrequency ==
  pc = "pivoted" =>
    /\ table = transform_table_frequency(
                 OfFrequency(all_records, Frequencies[fi]), Frequencies[fi])
    /\ \A i \in 1..Len(all_records) :
         /\ \A g \in 1..Len(Frequencies) :
              Contributes(all_records[i], Frequencies[g])
                <=> /\ detect_frequency(all_records[i].TimePeriod) = Frequencies[g]
                    /\ normalize_date(all_records[i].TimePeriod, Frequencies[g]) # <<>>
                    /\ all_records[i].LineDescription # <<>>
                    /\ slugify(all_records[i].LineDescription) # <<>>
         /\ Cardinality({g \in 1..Len(Frequencies) :
              Contributes(all_records[i], Frequencies[g])}) <= 1

\* a monthly table made from a list that also holds an annual record and a
\* record without a usable column name
C27_Witness ==
  /\ pc = "pivoted"
  /\ Frequencies[fi] = "monthly"
  /\ table.kind = "table"
  /\ \E i, j \in 1..Len(all_records) :
       /\ Contributes(all_records[i], "annual")
       /\ detect_frequency(all_records[j].TimePeriod) = "annual"
       /\ \A g \in 1..Len(Frequencies) : ~Contributes(all_records[j], Frequencies[g])

\* the suffix of a table as the catalog alone determines it
CatalogSuffix(table_name) ==
  IF table_name \in DOMAIN SuffixMap(catalog) THEN SuffixMap(catalog)[table_name]
  ELSE <<>>

\* C28: the identifier made for a table is the one its catalog entry, the
\* frequency and the suffix of the table in the suffix map of the whole catalog
\* give, whatever raw data the run found for this or any other table, and the
\* identifier handed to upload_data is that identifier.
C28_SuffixFromCatalogOnly ==
  /\ [][(pc = "pivoted" /\ pc' = "test") =>
          dataset_id' = make_dataset_id(catalog[idx].TableName,
                                        catalog[idx].Description, Frequencies[fi],
                                        CatalogSuffix(catalog[idx].TableName))]_vars
  /\ [][(pc = "upload" /\ pc' # "aborted") =>
          /\ events'[Len(events')].op = "upload"
          /\ events'[Len(events')].dataset_id = dataset_id]_vars
  /\ [][pc = "test" => dataset_id' = dataset_id]_vars

\* a completed run that published bea_gdp_level_annual_2 and no
\* bea_gdp_level_annual_1
C28_Witness ==
  /\ pc = "done"
  /\ \E k \in EventsOf("upload") :
       events[k].dataset_id =
         <<98, 101, 97, 95, 103, 100, 112, 95, 108, 101, 118, 101, 108, 95, 97,
           110, 110, 117, 97, 108, 95, 50>>
  /\ \A k \in EventsOf("upload") :
       events[k].dataset_id #
         <<98, 101, 97, 95, 103, 100, 112, 95, 108, 101, 118, 101, 108, 95, 97,
           110, 110, 117, 97, 108, 95, 49>>

\* the completed set of a persisted state
CompletedOf(st) == IF "completed" \in DOMAIN st THEN st["completed"] ELSE {}

\* C29: the persisted completed set changes only by the step after the save
\* of the raw file, which adds the table of that file, fetched for both
\* frequencies; every table in it has its raw file with the annual and the
\* quarterly records; and when a fetch or the save of the raw file raises,
\* the run ends, the table at hand is not in the persisted set, and the tables
\* completed earlier in the run still are.
C29_CompletedAfterSave ==
  /\ [](\A tn \in CompletedOf(state) :
          /\ tn \in DOMAIN raw_json
          /\ raw_json[tn]["table_name"] = tn
          /\ {"annual", "quarterly"} \subseteq DOMAIN raw_json[tn])
  /\ [][state' # state =>
          /\ pc = "save_state"
          /\ CompletedOf(state') = CompletedOf(state) \cup {pending[idx].TableName}
          /\ raw_json[pending[idx].TableName] = table_data
          /\ DOMAIN table_data = {"table_name", "description", "annual", "quarterly"}]_vars
  /\ [][(pc \in {"annual", "quarterly", "save"} /\ result' = "raised") =>
          /\ pc' = "idle"
          /\ pending[idx].TableName \notin CompletedOf(state')
          /\ \A j \in 1..(idx - 1) : pending[j].TableName \in CompletedOf(state')
          /\ CompletedOf(state) \subseteq CompletedOf(state')]_vars

\* a run over two pending tables ends by an exception at the second one, the
\* first one being persisted as completed with its raw file
C29_Witness ==
  /\ pc = "idle"
  /\ result = "raised"
  /\ CompletedOf(state) = {Text("T10105")}
  /\ DOMAIN raw_json = {Text("T10105")}

\* C30: over any sequence of ingest runs, the table a fetch is made for is not
\* in the persisted completed set; the persisted completed set never loses a
\* table; a run that returns, after its last table or because nothing was
\* pending, leaves every table of its catalog in the persisted completed set;
\* and a run with nothing pending returns without a fetch and leaves the
\* persisted state and the raw files as they were.
C30_IncrementalIngest ==
  /\ [](pc \in {"annual", "quarterly"} =>
          pending[idx].TableName \notin CompletedOf(state))
  /\ [][CompletedOf(state) \subseteq CompletedOf(state')]_vars
  /\ [][(pc # "idle" /\ result' \in {"completed", "up_to_date"}) =>
          /\ pc' = "idle"
          /\ \A i \in 1..Len(tables) : tables[i].TableName \in CompletedOf(state')]_vars
  /\ [][result' = "up_to_date" =>
          (pc \in {"load_state", "idle"} /\ state' = state /\ raw_json' = raw_json)]_vars

\* after earlier runs completed two tables, a run over a catalog of these two
\* finds nothing pending
C30_Witness ==
  /\ pc = "idle"
  /\ result = "up_to_date"
  /\ CompletedOf(state) = {Text("T10105"), Text("T10106")}
  /\ DOMAIN raw_json = {Text("T10105"), Text("T10106")}

====
